---- MODULE Spec2Model ----
(***************************************************************************)
(* Model of the voicci job queue (lib/queue.js), the background worker     *)
(* (backend/worker.js), the CLI commands that write the queue              *)
(* (cli/index.js) and the chapter segmenter (lib/text-cleaner.js,          *)
(* lib/text-cleaner-v2.js).                                                *)
(*                                                                         *)
(* Every process (each worker, each CLI command) holds its own in-memory   *)
(* copy of the queue document, loaded once by the Queue constructor, and   *)
(* every mutating Queue call rewrites the whole persisted document from    *)
(* that copy.  A worker step is one turn of the Node event loop: the code  *)
(* that runs between two awaits on a timer or on the TTS subprocess.       *)
(*                                                                         *)
(* Not modelled: the timestamps updated_at, started_at and completed_at,   *)
(* the title, text and source_file fields, and the log file.               *)
(***************************************************************************)
EXTENDS Integers, Sequences, FiniteSets, TLC

\* ------------------------------------------------------------------ bounds
MaxJobs == 2            \* createJob calls in one behaviour
MaxChapters == 2        \* chapters of a job made by the CLI
NumWorkers == 2         \* worker processes in one behaviour
MaxStoreJobs == 1       \* createJob calls in one behaviour of the Queue API alone
MaxLines == 3           \* lines of a text handed to detectChapters
MaxLineLen == 2         \* characters of a line (but for the one long line)
MaxSamples == 2          \* samples a memory monitor takes
MaxTextLen == 5         \* characters of a short text handed to cleanText
MaxBlankLen == 6        \* characters of a text handed to normalizeWhitespace
MaxTailLen == 4         \* characters of a file name after its run of letters
MaxSegments == 3        \* names of a path handed to validateFilePath
NormalizePasses == 2    \* calls of normalizeWhitespace, each on the output of the last

\* ------------------------------------------------------- program constants
MaxRetries == 3         \* processChapterWithRetry(chapter, outputDir, maxRetries = 3)
BackoffBase == 1000     \* 1000 * Math.pow(2, attempt)
BackoffCap == 30000     \* Math.min(..., 30000)
WordsPerMinute == 150   \* Math.ceil(totalWords / 150)
HeadingLengthLimit == 100   \* isChapter && line.length < 100
StaleAge == 3600000         \* worker.js: if (age > 3600000)
MinChapterWords == 10       \* text-cleaner-v2: if (currentChapter.wordCount > 10)
TocMinEntries == 3          \* removeTOC: (?: ... ){3,}
PageLength == 60            \* removeHeadersFooters: const pageLength = 60
HeaderLines == 3            \* removeHeadersFooters: const headerLines = 3
FooterLines == 3            \* removeHeadersFooters: const footerLines = 3
RepeatThreshold == 3        \* removeHeadersFooters: const repeatThreshold = 3
ShortTextLines == 100       \* text-cleaner-v2: if (lines.length < 100) return text
maxLength == 255            \* sanitizeFilename: const maxLength = 255
NewlineRun == 3             \* normalizeWhitespace: /\n{3,}/g
LowConcurrentJobs == 1      \* MEMORY_PROFILES.low.maxConcurrentJobs
MediumConcurrentJobs == 2   \* MEMORY_PROFILES.medium.maxConcurrentJobs
HighConcurrentJobs == 5     \* MEMORY_PROFILES.high.maxConcurrentJobs
LowMemoryThreshold == 85    \* MEMORY_PROFILES.low.memoryThreshold, in percent
MediumMemoryThreshold == 90 \* MEMORY_PROFILES.medium.memoryThreshold, in percent
HighMemoryThreshold == 95   \* MEMORY_PROFILES.high.memoryThreshold, in percent
DefaultThreshold == 85      \* MemoryMonitor: options.threshold || 0.85, in percent
DefaultGcThreshold == 90    \* MemoryMonitor: options.gcThreshold || 0.90, in percent

null == "null"
NoJob == 0              \* the null of getNextPendingJob and of currentJob
Workers == 1..NumWorkers
JobIds == 1..MaxJobs
ConcurrencyLevels == {LowConcurrentJobs, MediumConcurrentJobs}
ChapterIds == JobIds \X (1..MaxChapters)
NoChapter == <<NoJob, NoJob>>   \* the null of getNextPendingChapter
StatusValues == {"pending", "processing", "completed", "failed"}
CancelMessage == "Cancelled by user"
MkdirMessage == "mkdir failed"
AudioFile == "chapter.wav"
OutputDir == "audiobooks/title_ts"

\* What one invocation of the TTS engine can end in: a success result, a result
\* without success (result.error || 'TTS generation failed'), or a rejected
\* promise (non-zero exit, unparsable output, spawn failure, missing script).
TtsOutcomes == {"ok", "error_result", "rejected"}
TtsMessage(outcome) ==
  IF outcome = "error_result" THEN "TTS generation failed" ELSE "TTS process failed"

VARIABLES
  disk,               \* the persisted queue.json: [jobs, chapters]
  wstate,             \* worker process -> "new" | "running" | "exited"
  mem,                \* worker process -> its Queue's this.data
  activeJobs,         \* worker process -> this.activeJobs
  currentJob,         \* worker process -> id of this.currentJob, or null
  tasks,              \* worker process -> job id -> the suspended processJobAsync call
  maxConcurrentJobs,  \* settings.maxConcurrentJobs of the active profile
  nextJobId,          \* stands for uuidv4(): the next fresh job id
  now,                \* Date.now() of the latest createJob
  deletedJobs,        \* history: ids passed to deleteJob by an explicit CLI request
  tempFiles,          \* chapter ids c whose temp file <c>.json exists in config.paths.temp
  tempDir,            \* config.paths.temp as start() finds it: the files earlier runs left
  monitor,            \* worker process -> this.memoryMonitor: its options and stats
  sanitizing,         \* the sanitizeFilename call: its argument, its outcome, its result
  validating,         \* the validateFilePath call: its argument, its outcome, its result
  rawText,            \* processFile: the extracted text, as its characters
  cleaning,           \* the cleanText call: who ran it, the stage that failed, its outcome
  normalized,         \* what successive normalizeWhitespace calls returned
  cleanedText,        \* processFile: the cleaned text, as its lines (text.split('\n'))
  detected,           \* processFile: the chapters detectChapters returned
  cleaner             \* the TextCleaner that ran: "none" | "v1" | "v2"

vars == <<disk, wstate, mem, activeJobs, currentJob, tasks,
          maxConcurrentJobs, nextJobId, now, deletedJobs, tempFiles, tempDir,
          monitor, sanitizing, validating,
          rawText, cleaning, normalized, cleanedText, detected, cleaner>>

\* The state of the calls of the PathValidator
pathVars == <<sanitizing, validating>>

\* The state of the text pipeline of processFile
pipelineVars == <<rawText, cleaning, normalized, cleanedText, detected, cleaner>>

\* ---------------------------------------------------------------- helpers
Min(a, b) == IF a <= b THEN a ELSE b

RECURSIVE Pow2(_)
Pow2(n) == IF n = 0 THEN 1 ELSE 2 * Pow2(n - 1)

Restrict(f, S) == [x \in S |-> f[x]]

EmptyDoc == [jobs |-> [j \in {} |-> j], chapters |-> [c \in {} |-> c]]

\* The chapter lists the segmenter hands to createJob: ordinals ascending by
\* one, from 1 (a text whose first line is a heading, or the 'Full Text'
\* fallback) or from 0 (an Introduction before the first heading); the word
\* count depends on the ordinal.
WordCountOf(num) == 60 + 40 * num
ChapterInput(first, n) ==
  [i \in 1..n |-> [number |-> first + i - 1, wordCount |-> WordCountOf(first + i - 1)]]
ChapterInputs ==
  {ChapterInput(1, n) : n \in 1..(MaxChapters - 1)} \cup {ChapterInput(0, MaxChapters)}

\* ----------------------------------- lib/text-cleaner.js, text-cleaner-v2.js
\* A text is the sequence of its lines (what text.split('\n') returns: at least
\* one line, the empty text being one empty line) and a line is the sequence of
\* its characters, each a string of length one.  The texts handed directly to
\* detectChapters are made of a digit, a letter and the space: over them a
\* trimmed line matches the chapter patterns exactly when it is a lone number
\* (/^\d+\s*$/), and no line is a TOC entry (no dots).
Space == " "
Digit == "1"
Letter == "a"
Chars == {Digit, Letter, Space}

Tab == "\t"
Newline == "\n"
Dot == "."
Colon == ":"
Hyphen == "-"

\* The character classes of the regular expressions
Whitespace == {Space, Tab, Newline}                                  \* \s
DigitChars == {"0", "1", "2", "3", "4", "5", "6", "7", "8", "9"}     \* \d
UpperSeq == <<"A", "B", "C", "D", "E", "F", "G", "H", "I", "J", "K", "L", "M",
              "N", "O", "P", "Q", "R", "S", "T", "U", "V", "W", "X", "Y", "Z">>
LowerSeq == <<"a", "b", "c", "d", "e", "f", "g", "h", "i", "j", "k", "l", "m",
              "n", "o", "p", "q", "r", "s", "t", "u", "v", "w", "x", "y", "z">>
UpperChars == {UpperSeq[i] : i \in DOMAIN UpperSeq}                  \* [A-Z]
LowerChars == {LowerSeq[i] : i \in DOMAIN LowerSeq}
RomanChars == {"I", "V", "X", "L", "C", "D", "M"}                    \* [IVXLCDM]
WordChars == UpperChars \cup LowerChars \cup DigitChars \cup {"_"}   \* \w

\* The canonical form of a character under the i flag
toLower(c) ==
  IF c \in UpperChars THEN LowerSeq[CHOOSE i \in DOMAIN UpperSeq : UpperSeq[i] = c] ELSE c

MaxOf(S) == CHOOSE x \in S : \A y \in S : y <= x
MinOf(S) == CHOOSE x \in S : \A y \in S : x <= y

\* The end of the longest run of characters of a class that starts at p: the
\* place of the first character from p on that is outside the class
SkipClass(s, p, class) ==
  MinOf({q \in p..Len(s) : s[q] \notin class} \cup {IF p > Len(s) THEN p ELSE Len(s) + 1})

\* The end of the longest run of characters outside a class that starts at p
SkipUntil(s, p, class) ==
  MinOf({q \in p..Len(s) : s[q] \in class} \cup {IF p > Len(s) THEN p ELSE Len(s) + 1})

RECURSIVE SeqsUpTo(_, _)
SeqsUpTo(S, n) ==
  IF n = 0 THEN {<<>>}
  ELSE LET shorter == SeqsUpTo(S, n - 1)
       IN shorter \cup {Append(q, x) : q \in {r \in shorter : Len(r) = n - 1}, x \in S}

\* n one-letter words separated by single spaces
RECURSIVE WordsLine(_)
WordsLine(n) ==
  IF n = 0 THEN <<>>
  ELSE IF n = 1 THEN <<Letter>>
  ELSE WordsLine(n - 1) \o <<Space, Letter>>

\* The lines of the input texts: every line of up to MaxLineLen characters, and
\* one line with more words than the minimum word count of text-cleaner-v2
InputLines == SeqsUpTo(Chars, MaxLineLen) \cup {WordsLine(MinChapterWords + 1)}
InputTexts == SeqsUpTo(InputLines, MaxLines) \ {<<>>}

\* String.prototype.trim on one line
RECURSIVE DropLeadingSpace(_)
DropLeadingSpace(line) ==
  IF line # <<>> /\ Head(line) \in Whitespace THEN DropLeadingSpace(Tail(line)) ELSE line

RECURSIVE DropTrailingSpace(_)
DropTrailingSpace(line) ==
  IF line # <<>> /\ line[Len(line)] \in Whitespace
  THEN DropTrailingSpace(SubSeq(line, 1, Len(line) - 1))
  ELSE line

trimLine(line) == DropTrailingSpace(DropLeadingSpace(line))

\* String.prototype.trim on a text of several lines: newlines are whitespace too
RECURSIVE DropLeadingBlank(_)
DropLeadingBlank(lines) ==
  IF lines # <<>> /\ trimLine(Head(lines)) = <<>>
  THEN DropLeadingBlank(Tail(lines))
  ELSE lines

RECURSIVE DropTrailingBlank(_)
DropTrailingBlank(lines) ==
  IF lines # <<>> /\ trimLine(lines[Len(lines)]) = <<>>
  THEN DropTrailingBlank(SubSeq(lines, 1, Len(lines) - 1))
  ELSE lines

trimText(lines) ==
  LET core == DropTrailingBlank(DropLeadingBlank(lines))
  IN IF core = <<>> THEN << <<>> >>
     ELSE [i \in 1..Len(core) |->
             LET l == IF i = 1 THEN DropLeadingSpace(core[i]) ELSE core[i]
             IN IF i = Len(core) THEN DropTrailingSpace(l) ELSE l]

\* The words of a line: the maximal runs of characters other than whitespace
WordsInLine(line) ==
  Cardinality({i \in 1..Len(line) :
                 line[i] \notin Whitespace /\ (i = 1 \/ line[i - 1] \in Whitespace)})

RECURSIVE WordsInText(_)
WordsInText(lines) ==
  IF lines = <<>> THEN 0 ELSE WordsInLine(Head(lines)) + WordsInText(Tail(lines))

\* text.split(/\s+/).length of a trimmed text: the empty text splits into ['']
splitLength(lines) == IF WordsInText(lines) = 0 THEN 1 ELSE WordsInText(lines)

\* text-cleaner-v2 countWords: 0 for an empty or blank text
countWords(lines) == WordsInText(trimText(lines))

\* /^Chapter\s+(\d+|[IVXLCDM]+)[\s:\.]/i and /^CHAPTER\s+(\d+|[IVXLCDM]+)[\s:\.]/:
\* the word, whitespace, a number or a roman numeral, and then one more
\* character, which is whitespace, a colon or a dot
MatchesChapterWord(line, word, ignoreCase) ==
  LET fold(c) == IF ignoreCase THEN toLower(c) ELSE c
      roman == IF ignoreCase THEN RomanChars \cup {toLower(c) : c \in RomanChars}
               ELSE RomanChars
      q == SkipClass(line, Len(word) + 1, Whitespace)
      r == IF q <= Len(line) /\ line[q] \in DigitChars
           THEN SkipClass(line, q, DigitChars)
           ELSE SkipClass(line, q, roman)
  IN /\ Len(line) >= Len(word)
     /\ \A i \in 1..Len(word) : fold(line[i]) = fold(word[i])
     /\ q > Len(word) + 1
     /\ r > q
     /\ r <= Len(line)
     /\ line[r] \in Whitespace \cup {Colon, Dot}

\* /^(\d+|[IVXLCDM]+)\.\s+[A-Z]/
MatchesNumberedTitle(line) ==
  LET q == IF line # <<>> /\ line[1] \in DigitChars
           THEN SkipClass(line, 1, DigitChars)
           ELSE SkipClass(line, 1, RomanChars)
      s == SkipClass(line, q + 1, Whitespace)
  IN /\ q > 1
     /\ q <= Len(line)
     /\ line[q] = Dot
     /\ s > q + 1
     /\ s <= Len(line)
     /\ line[s] \in UpperChars

\* /^\d+\s*$/
MatchesLoneNumber(line) ==
  LET q == SkipClass(line, 1, DigitChars)
  IN q > 1 /\ SkipClass(line, q, Whitespace) = Len(line) + 1

\* chapterPatterns.some(pattern => pattern.test(line)), on a trimmed line
isChapter(line) ==
  \/ MatchesChapterWord(line, <<"C", "h", "a", "p", "t", "e", "r">>, TRUE)
  \/ MatchesChapterWord(line, <<"C", "H", "A", "P", "T", "E", "R">>, FALSE)
  \/ MatchesNumberedTitle(line)
  \/ MatchesLoneNumber(line)

\* /\.{3,}\s*\d+$/.test(line): three dots or more, whitespace, and a number
\* that ends the line
isTOCEntry(line) ==
  \E d \in 4..Len(line) :
    LET q == SkipClass(line, d, Whitespace)
    IN /\ \A i \in (d - 3)..(d - 1) : line[i] = Dot
       /\ q <= Len(line)
       /\ line[q] \in DigitChars
       /\ SkipClass(line, q, DigitChars) = Len(line) + 1

\* isChapter && line.length < 100 && !isTOCEntry
IsBoundary(line) ==
  isChapter(line) /\ Len(line) < HeadingLengthLimit /\ ~isTOCEntry(line)

\* the line is appended without its newline
appendLineNoNewline(text, line) ==
  SubSeq(text, 1, Len(text) - 1) \o <<text[Len(text)] \o line>>

\* currentChapter.text += line + '\n'
appendLine(text, line) ==
  SubSeq(text, 1, Len(text) - 1) \o <<text[Len(text)] \o line, <<>> >>

IntroTitle == <<"Introduction">>
FullTextTitle == <<"Full Text">>
EmptyText == << <<>> >>

\* The loop state of detectChapters before the first line
LoopStart ==
  [chapters |-> <<>>, open |-> FALSE, chapterNum |-> 0,
   cur |-> [number |-> 0, title |-> <<>>, text |-> EmptyText]]

\* currentChapter.text = currentChapter.text.trim(); wordCount = ...split(/\s+/).length
closeChapter(cur) ==
  [number |-> cur.number, title |-> cur.title, text |-> trimText(cur.text),
   wordCount |-> splitLength(trimText(cur.text))]

\* text-cleaner-v2: wordCount = this.countWords(currentChapter.text)
closeChapterV2(cur) ==
  [number |-> cur.number, title |-> cur.title, text |-> trimText(cur.text),
   wordCount |-> countWords(trimText(cur.text))]

\* One turn of the for loop of detectChapters (text-cleaner.js)
loopStep(st, rawLine) ==
  LET line == trimLine(rawLine)
  IN IF IsBoundary(line)
     THEN [chapters |-> IF st.open THEN Append(st.chapters, closeChapter(st.cur))
                        ELSE st.chapters,
           open |-> TRUE,
           chapterNum |-> st.chapterNum + 1,
           cur |-> [number |-> st.chapterNum + 1, title |-> line, text |-> EmptyText]]
     ELSE IF st.open
     THEN [st EXCEPT !.cur.text = appendLine(@, line)]
     ELSE IF st.chapterNum = 0
     THEN [st EXCEPT !.open = TRUE,
                     !.cur = [number |-> 0, title |-> IntroTitle,
                              text |-> appendLine(EmptyText, line)]]
     ELSE st

\* One turn of the for loop of detectChapters (text-cleaner-v2.js): a closed
\* chapter is kept only above the minimum word count, and the Introduction
\* starts at the first line that is not empty
loopStepV2(st, rawLine) ==
  LET line == trimLine(rawLine)
  IN IF IsBoundary(line)
     THEN [chapters |-> IF st.open /\ closeChapterV2(st.cur).wordCount > MinChapterWords
                        THEN Append(st.chapters, closeChapterV2(st.cur))
                        ELSE st.chapters,
           open |-> TRUE,
           chapterNum |-> st.chapterNum + 1,
           cur |-> [number |-> st.chapterNum + 1, title |-> line, text |-> EmptyText]]
     ELSE IF st.open
     THEN [st EXCEPT !.cur.text = appendLine(@, line)]
     ELSE IF st.chapterNum = 0 /\ Len(line) > 0
     THEN [st EXCEPT !.open = TRUE,
                     !.cur = [number |-> 0, title |-> IntroTitle,
                              text |-> appendLine(EmptyText, line)]]
     ELSE st

RECURSIVE loopOver(_, _)
loopOver(st, lines) ==
  IF lines = <<>> THEN st ELSE loopOver(loopStep(st, Head(lines)), Tail(lines))

RECURSIVE loopOverV2(_, _)
loopOverV2(st, lines) ==
  IF lines = <<>> THEN st ELSE loopOverV2(loopStepV2(st, Head(lines)), Tail(lines))

\* detectChapters(text) of text-cleaner.js
detectChapters(lines) ==
  LET st == loopOver(LoopStart, lines)
      chapters == IF st.open THEN Append(st.chapters, closeChapter(st.cur))
                  ELSE st.chapters
  IN IF chapters = <<>>
     THEN <<[number |-> 1, title |-> FullTextTitle, text |-> trimText(lines),
             wordCount |-> splitLength(trimText(lines))]>>
     ELSE chapters

\* detectChapters(text) of text-cleaner-v2.js
detectChaptersV2(lines) ==
  LET st == loopOverV2(LoopStart, lines)
      chapters == IF st.open /\ closeChapterV2(st.cur).wordCount > MinChapterWords
                  THEN Append(st.chapters, closeChapterV2(st.cur))
                  ELSE st.chapters
  IN IF chapters = <<>>
     THEN <<[number |-> 1, title |-> FullTextTitle, text |-> trimText(lines),
             wordCount |-> countWords(trimText(lines))]>>
     ELSE chapters

\* ---- cleanText: the text as one string, the sequence of its characters ----

\* The end of the line that holds position p: the place of its newline, or
\* the place after the last character
LineEnd(text, p) == SkipUntil(text, p, {Newline})

\* The rest of the line from p on, with its newline if it has one
ThroughLineEnd(text, p) ==
  SubSeq(text, p, IF LineEnd(text, p) > Len(text) THEN Len(text) ELSE LineEnd(text, p))

\* ^ under the m flag
AtLineStart(text, p) == p = 1 \/ text[p - 1] = Newline

\* $ under the m flag, before the character at p
AtLineEnd(text, p) == p = Len(text) + 1 \/ text[p] = Newline

\* the literal stands at p, compared as the i flag compares
LiteralAt(text, p, literal) ==
  /\ p + Len(literal) - 1 <= Len(text)
  /\ \A i \in 1..Len(literal) : toLower(text[p + i - 1]) = toLower(literal[i])

\* text.split('\n')
RECURSIVE splitLines(_)
splitLines(text) ==
  LET e == LineEnd(text, 1)
  IN IF e > Len(text) THEN <<text>>
     ELSE <<SubSeq(text, 1, e - 1)>> \o splitLines(SubSeq(text, e + 1, Len(text)))

\* lines.join('\n')
RECURSIVE joinLines(_)
joinLines(lines) ==
  IF lines = <<>> THEN <<>>
  ELSE IF Len(lines) = 1 THEN lines[1]
  ELSE lines[1] \o <<Newline>> \o joinLines(Tail(lines))

\* One ^.*?\.{3,}\s*\d+\s*$\n that starts at p: the place after it, or 0 when
\* there is none.  The dots are on the line of p; the whitespace before the
\* number and after it may hold newlines, and the last \s* gives back what
\* follows the last newline it took.
TocEntryEnd(text, p) ==
  LET ends == {d \in (p + 3)..LineEnd(text, p) :
                 LET q == SkipClass(text, d, Whitespace)
                     r == SkipClass(text, q, DigitChars)
                     s == SkipClass(text, r, Whitespace)
                 IN /\ \A i \in (d - 3)..(d - 1) : text[i] = Dot
                    /\ r > q
                    /\ \E n \in r..(s - 1) : text[n] = Newline}
  IN IF ends = {} THEN 0
     ELSE LET d == MinOf(ends)
              r == SkipClass(text, SkipClass(text, d, Whitespace), DigitChars)
              s == SkipClass(text, r, Whitespace)
          IN MaxOf({n \in r..(s - 1) : text[n] = Newline}) + 1

\* (?: ... ){3,} from p, greedy: how many entries follow one another, and the
\* place after the last of them
RECURSIVE TocRun(_, _)
TocRun(text, p) ==
  LET e == TocEntryEnd(text, p)
  IN IF e = 0 THEN <<0, p>>
     ELSE LET rest == TocRun(text, e) IN <<rest[1] + 1, rest[2]>>

\* result.replace(/(?:^.*?\.{3,}\s*\d+\s*$\n){3,}/gm, '\n\n'), from p on
\* on, p being the start of a line: a line where no match starts is kept whole
RECURSIVE replaceTocFrom(_, _)
replaceTocFrom(text, p) ==
  IF p > Len(text) THEN <<>>
  ELSE IF TocRun(text, p)[1] >= TocMinEntries
  THEN <<Newline, Newline>> \o replaceTocFrom(text, TocRun(text, p)[2])
  ELSE ThroughLineEnd(text, p) \o replaceTocFrom(text, LineEnd(text, p) + 1)

\* removeTOC(text).  The patterns that start with TABLE OF CONTENTS and (in
\* text-cleaner-v2.js) with Contents need the letter o, which no modelled text
\* has: only the pattern of three or more dotted lines can match.
removeTOC(text) == replaceTocFrom(text, 1)

\* The keywords of copyrightPattern; the sign is the two characters that
\* text-cleaner.js spells it with, and one character in text-cleaner-v2.js
CopyrightWords ==
  { <<"c", "o", "p", "y", "r", "i", "g", "h", "t">>,
    <<"i", "s", "b", "n">>,
    <<"p", "u", "b", "l", "i", "s", "h", "e", "d">>,
    <<"a", "l", "l", " ", "r", "i", "g", "h", "t", "s", " ",
      "r", "e", "s", "e", "r", "v", "e", "d">> }
CopyrightSign == {<<"Â", "©">>}
CopyrightSignV2 == {<<"©">>}

\* text.replace(/^.*?(?:copyright|...).*?\n{2,}/ims, ''): with the s flag the
\* dots run over newlines, so the match starts at the start of the text, goes
\* to the first keyword and on to the first run of two or more newlines after
\* it; without the g flag only this one match is removed
removeCopyrightOf(text, keywords) ==
  LET found == {k \in 1..Len(text) : \E w \in keywords : LiteralAt(text, k, w)}
      k == MinOf(found)
      after == MinOf({k + Len(w) : w \in {v \in keywords : LiteralAt(text, k, v)}})
      breaks == {n \in after..(Len(text) - 1) :
                   text[n] = Newline /\ text[n + 1] = Newline}
  IN IF found = {} \/ breaks = {} THEN text
     ELSE SubSeq(text, SkipClass(text, MinOf(breaks), {Newline}), Len(text))

removeCopyright(text) == removeCopyrightOf(text, CopyrightWords \cup CopyrightSign)
removeCopyrightV2(text) == removeCopyrightOf(text, CopyrightWords \cup CopyrightSignV2)

\* The lines sampled as headers (the first headerLines lines of every page of
\* pageLength lines) and as footers (its last footerLines lines), from 1
HeaderSample(n) ==
  {i + j + 1 : i \in {PageLength * k : k \in 0..(n \div PageLength)},
               j \in 0..(HeaderLines - 1)} \cap (1..n)
FooterSample(n) ==
  {i + PageLength - j + 1 : i \in {PageLength * k : k \in 0..(n \div PageLength)},
                            j \in 1..FooterLines} \cap (1..n)

\* the trimmed lines that the sample holds repeatThreshold times or more
CommonLines(lines, sample) ==
  {trimLine(lines[k]) : k \in {m \in sample :
     /\ Len(trimLine(lines[m])) > 0
     /\ Len(trimLine(lines[m])) < HeadingLengthLimit
     /\ Cardinality({o \in sample : trimLine(lines[o]) = trimLine(lines[m])})
          >= RepeatThreshold}}

\* removeHeadersFooters(text)
removeHeadersFooters(text) ==
  LET lines == splitLines(text)
      common == CommonLines(lines, HeaderSample(Len(lines)))
                  \cup CommonLines(lines, FooterSample(Len(lines)))
  IN joinLines(SelectSeq(lines, LAMBDA line : trimLine(line) \notin common))

\* text-cleaner-v2.js: if (lines.length < 100) return text
removeHeadersFootersV2(text) ==
  IF Len(splitLines(text)) < ShortTextLines THEN text ELSE removeHeadersFooters(text)

\* One match of /^\s*<open>\s*\d+\s*<close>\s*$/m that starts at p: the place
\* after it, or 0.  gap is the least whitespace between open and the number.
\* The last \s* stops at the last place where a line ends.
PageNumberEnd(text, p, open, gap, close) ==
  LET a == SkipClass(text, p, Whitespace)
      b == SkipClass(text, a + Len(open), Whitespace)
      c == SkipClass(text, b, DigitChars)
      d == SkipClass(text, c, Whitespace)
      f == IF close = <<>> THEN c ELSE d + Len(close)
      g == SkipClass(text, f, Whitespace)
      stops == {e \in f..g : AtLineEnd(text, e)}
  IN IF /\ LiteralAt(text, a, open)
        /\ b - (a + Len(open)) >= gap
        /\ c > b
        /\ LiteralAt(text, d, close)
        /\ stops # {}
     THEN MaxOf(stops)
     ELSE 0

\* cleaned.replace(pattern, '') under the g flag, from p on: a match starts
\* only where a line starts, and the rest of a line without one is kept
RECURSIVE removePageNumberFrom(_, _, _, _, _)
removePageNumberFrom(text, p, open, gap, close) ==
  IF p > Len(text) THEN <<>>
  ELSE IF AtLineStart(text, p) /\ PageNumberEnd(text, p, open, gap, close) # 0
  THEN removePageNumberFrom(text, PageNumberEnd(text, p, open, gap, close),
                            open, gap, close)
  ELSE ThroughLineEnd(text, p)
         \o removePageNumberFrom(text, LineEnd(text, p) + 1, open, gap, close)

\* removePageNumbers(text): a lone number, - 42 -, [42] and Page 42, in turn
removePageNumbers(text) ==
  LET one == removePageNumberFrom(text, 1, <<>>, 0, <<>>)
      two == removePageNumberFrom(one, 1, <<Hyphen>>, 0, <<Hyphen>>)
      three == removePageNumberFrom(two, 1, <<"[">>, 0, <<"]">>)
  IN removePageNumberFrom(three, 1, <<"P", "a", "g", "e">>, 1, <<>>)

\* One match of /(\w+)-\s*\n\s*(\w+)/ has its hyphen at h: a word character
\* before it, whitespace with a newline after it, and a word character next
HyphenBreaks(text) ==
  {h \in 2..Len(text) :
     LET s == SkipClass(text, h + 1, Whitespace)
     IN /\ text[h] = Hyphen
        /\ text[h - 1] \in WordChars
        /\ \E n \in (h + 1)..(s - 1) : text[n] = Newline
        /\ s <= Len(text)
        /\ text[s] \in WordChars}

\* text.replace(/(\w+)-\s*\n\s*(\w+)/g, '$1$2'): the text is kept from
\* `from` on, and the next match starts at p or later, so that its first word
\* is not part of the match before it; the hyphen and the whitespace go
RECURSIVE fixHyphenationFrom(_, _, _)
fixHyphenationFrom(text, from, p) ==
  LET next == {h \in HyphenBreaks(text) : h > p}
  IN IF next = {} THEN SubSeq(text, from, Len(text))
     ELSE SubSeq(text, from, MinOf(next) - 1)
            \o fixHyphenationFrom(text,
                                  SkipClass(text, MinOf(next) + 1, Whitespace),
                                  SkipClass(text, SkipClass(text, MinOf(next) + 1, Whitespace),
                                            WordChars))

fixHyphenation(text) == fixHyphenationFrom(text, 1, 1)

\* .replace(/[ \t]+/g, ' ') on one line
RECURSIVE collapseLineBlanks(_)
collapseLineBlanks(line) ==
  IF line = <<>> THEN <<>>
  ELSE IF Head(line) \in {Space, Tab}
  THEN <<Space>> \o collapseLineBlanks(SubSeq(line, SkipClass(line, 1, {Space, Tab}),
                                              Len(line)))
  ELSE SubSeq(line, 1, SkipUntil(line, 1, {Space, Tab}) - 1)
         \o collapseLineBlanks(SubSeq(line, SkipUntil(line, 1, {Space, Tab}), Len(line)))

\* .replace(/[ \t]+/g, ' '): a run of blanks does not go over a newline
collapseBlanks(text) ==
  joinLines([i \in DOMAIN splitLines(text) |-> collapseLineBlanks(splitLines(text)[i])])

\* .replace(/\n{3,}/g, '\n\n')
RECURSIVE collapseNewlines(_)
collapseNewlines(text) ==
  IF text = <<>> THEN <<>>
  ELSE LET e == SkipClass(text, 1, {Newline})
           u == LineEnd(text, 1)
       IN IF e - 1 >= NewlineRun
          THEN <<Newline, Newline>> \o collapseNewlines(SubSeq(text, e, Len(text)))
          ELSE IF e > 1
          THEN SubSeq(text, 1, e - 1) \o collapseNewlines(SubSeq(text, e, Len(text)))
          ELSE SubSeq(text, 1, u - 1) \o collapseNewlines(SubSeq(text, u, Len(text)))

\* one whitespace character at most is taken from each end
normalizeWhitespaceTrimOnce(text) ==
  LET c == collapseNewlines(collapseBlanks(text))
      d == IF c # <<>> /\ Head(c) \in Whitespace THEN Tail(c) ELSE c
  IN IF d # <<>> /\ d[Len(d)] \in Whitespace THEN SubSeq(d, 1, Len(d) - 1) ELSE d

\* normalizeWhitespace(text)
normalizeWhitespace(text) == trimLine(collapseNewlines(collapseBlanks(text)))

\* The texts handed to normalizeWhitespace: every string of up to MaxBlankLen
\* characters that are a space, a tab, a newline or a letter
BlankTexts == SeqsUpTo({Space, Tab, Newline, Letter}, MaxBlankLen)

\* The texts handed to cleanText: every string of up to MaxTextLen characters
\* that are a space, a newline, a letter, a digit or a hyphen, ...
SmallTexts == SeqsUpTo({Space, Newline, Letter, Digit, Hyphen}, MaxTextLen)

\* ... and documents of three chapters: an optional line with a keyword of the
\* copyright pattern and an empty line, then TOC lines such as
\* Chapter 1.......12, then for each chapter its heading and a body line
ChapterWord == <<"C", "h", "a", "p", "t", "e", "r">>
Numerals == <<"1", "2", "3">>
PageNumbers == << <<"1", "2">>, <<"3", "4">>, <<"5", "6">> >>
DotLeader == <<Dot, Dot, Dot, Dot, Dot, Dot, Dot>>
HeadingStyles == {"bare", "titled", "numbered"}

TocLine(i) == ChapterWord \o <<Space, Numerals[i]>> \o DotLeader \o PageNumbers[i]

\* Chapter 1, Chapter 1: A, or 1. A
HeadingLine(i, style) ==
  CASE style = "bare" -> ChapterWord \o <<Space, Numerals[i]>>
    [] style = "titled" -> ChapterWord \o <<Space, Numerals[i], Colon, Space, "A">>
    [] style = "numbered" -> <<Numerals[i], Dot, Space, "A">>

BodyLine == WordsLine(MinChapterWords + 1)

DocumentLines(tocLines, style, preface) ==
  (IF preface THEN << <<"i", "s", "b", "n">>, <<>> >> ELSE <<>>)
    \o [i \in 1..tocLines |-> TocLine(i)]
    \o [k \in 1..(2 * Len(Numerals)) |->
          IF k % 2 = 1 THEN HeadingLine((k + 1) \div 2, style) ELSE BodyLine]

Document(tocLines, style, preface) ==
  joinLines(DocumentLines(tocLines, style, preface))

TocDocuments ==
  {Document(n, style, preface) :
     n \in {0, 2, 3}, style \in HeadingStyles, preface \in BOOLEAN}

Stages == 1..6    \* removeTOC .. normalizeWhitespace, in the order of cleanText

\* The i-th stage of cleanText of text-cleaner.js ("v1") or text-cleaner-v2.js
applyStage(version, i, text) ==
  CASE i = 1 -> removeTOC(text)
    [] i = 2 -> IF version = "v1" THEN removeCopyright(text) ELSE removeCopyrightV2(text)
    [] i = 3 -> IF version = "v1" THEN removeHeadersFooters(text)
                ELSE removeHeadersFootersV2(text)
    [] i = 4 -> removePageNumbers(text)
    [] i = 5 -> fixHyphenation(text)
    [] i = 6 -> normalizeWhitespace(text)

\* Every stage catches its own failure and returns its input
TolerantStages(version) == version = "v2"

\* What stage i of cleanText returns when stage `failing` (0: none) fails
\* inside and catches its own failure: the failing stage returns its input
RECURSIVE stageOutput(_, _, _, _)
stageOutput(version, text, i, failing) ==
  IF i = 0 THEN text
  ELSE IF i = failing THEN stageOutput(version, text, i - 1, failing)
  ELSE CHOOSE out \in {applyStage(version, i, input) :
                         input \in {stageOutput(version, text, i - 1, failing)}} : TRUE

\* The outputs of the stages that return: in text-cleaner.js the exception of
\* the failing stage leaves cleanText, in text-cleaner-v2.js the stage
\* catches it and the later stages run
runStages(version, text, failing) ==
  LET last == IF failing = 0 \/ TolerantStages(version) THEN Cardinality(Stages) ELSE failing - 1
  IN [i \in 1..last |-> stageOutput(version, text, i, failing)]

NotCleaned == [by |-> "none", failing |-> 0, outcome |-> "none", stages |-> <<>>]

\* processFile of text-cleaner.js: const cleaned = await this.cleanText(text)
CleanText(failing) ==
  /\ cleaning = NotCleaned
  /\ LET outs == runStages("v1", rawText, failing)
     IN IF Len(outs) = Cardinality(Stages)
        THEN /\ cleaning' = [by |-> "v1", failing |-> failing,
                             outcome |-> "returned", stages |-> outs]
             /\ cleanedText' = splitLines(outs[Len(outs)])
        ELSE /\ cleaning' = [by |-> "v1", failing |-> failing,
                             outcome |-> "thrown", stages |-> outs]
             /\ UNCHANGED cleanedText
  /\ UNCHANGED <<disk, wstate, mem, activeJobs, currentJob, tasks, monitor, tempDir, pathVars,
                 maxConcurrentJobs,
                 nextJobId, now, deletedJobs, tempFiles, rawText, normalized,
                 detected, cleaner>>

\* processFile of text-cleaner-v2.js: an empty text is returned as it is
CleanTextV2(failing) ==
  /\ cleaning = NotCleaned
  /\ LET outs == IF rawText = <<>> THEN <<>> ELSE runStages("v2", rawText, failing)
     IN /\ cleaning' = [by |-> "v2", failing |-> IF rawText = <<>> THEN 0 ELSE failing,
                        outcome |-> "returned", stages |-> outs]
        /\ cleanedText' = splitLines(IF outs = <<>> THEN rawText ELSE outs[Len(outs)])
  /\ UNCHANGED <<disk, wstate, mem, activeJobs, currentJob, tasks, monitor, tempDir, pathVars,
                 maxConcurrentJobs,
                 nextJobId, now, deletedJobs, tempFiles, rawText, normalized,
                 detected, cleaner>>

\* normalizeWhitespace applied to the text, and then to what it returned
NormalizeWhitespace ==
  /\ Len(normalized) < NormalizePasses
  /\ normalized' = Append(normalized,
                          normalizeWhitespace(IF normalized = <<>> THEN rawText
                                              ELSE normalized[Len(normalized)]))
  /\ UNCHANGED <<disk, wstate, mem, activeJobs, currentJob, tasks, monitor, tempDir, pathVars,
                 maxConcurrentJobs,
                 nextJobId, now, deletedJobs, tempFiles, rawText, cleaning,
                 cleanedText, detected, cleaner>>

\* processFile: const chapters = await this.detectChapters(cleaned)
DetectChapters ==
  /\ cleaner = "none"
  /\ detected' = detectChapters(cleanedText)
  /\ cleaner' = "v1"
  /\ UNCHANGED <<disk, wstate, mem, activeJobs, currentJob, tasks, monitor, tempDir, pathVars,
                 maxConcurrentJobs,
                 nextJobId, now, deletedJobs, tempFiles, rawText, cleaning,
                 normalized, cleanedText>>

DetectChaptersV2 ==
  /\ cleaner = "none"
  /\ detected' = detectChaptersV2(cleanedText)
  /\ cleaner' = "v2"
  /\ UNCHANGED <<disk, wstate, mem, activeJobs, currentJob, tasks, monitor, tempDir, pathVars,
                 maxConcurrentJobs,
                 nextJobId, now, deletedJobs, tempFiles, rawText, cleaning,
                 normalized, cleanedText>>

\* ------------------------------------------------------ lib/path-validator.js
Slash == "/"
Backslash == "\\"
Underscore == "_"
NullByte == "\\0"            \* stands for the character U+0000

\* No call of the validator has been made
NoCall == [input |-> <<>>, outcome |-> "none", value |-> <<>>]

\* [a-zA-Z0-9._-]
SafeChars == UpperChars \cup LowerChars \cup DigitChars \cup {Dot, Underscore, Hyphen}

\* String.prototype.includes, on the characters of a string
includes(s, literal) ==
  \E p \in 1..(Len(s) - Len(literal) + 1) :
    \A i \in 1..Len(literal) : s[p + i - 1] = literal[i]

\* the number of dots that end just before position i
DotsBefore(s, i) == Cardinality({q \in 1..(i - 1) : \A r \in q..(i - 1) : s[r] = Dot})

\* filename.replace(/[\/\\]/g, '_')
replaceSeparators(s) ==
  [i \in 1..Len(s) |-> IF s[i] \in {Slash, Backslash} THEN Underscore ELSE s[i]]

\* safe.replace(/\.\./g, '__'): the matches are the successive pairs of each run
\* of dots, from its left; the last dot of a run of odd length stays
replaceDotDot(s) ==
  [i \in 1..Len(s) |->
     IF s[i] # Dot THEN s[i]
     ELSE IF DotsBefore(s, i) % 2 = 1 THEN Underscore
     ELSE IF i < Len(s) /\ s[i + 1] = Dot THEN Underscore
     ELSE Dot]

\* safe.replace(/[^a-zA-Z0-9._-]/g, '_')
replaceUnsafe(s) == [i \in 1..Len(s) |-> IF s[i] \in SafeChars THEN s[i] ELSE Underscore]

\* safe.replace(/^\.+/, '')
stripLeadingDots(s) == SubSeq(s, SkipClass(s, 1, {Dot}), Len(s))

\* path.extname of a name without separators: from its last dot, unless that dot
\* is its first character or the name is '..'
extname(s) ==
  LET dots == {i \in 1..Len(s) : s[i] = Dot}
  IN IF dots = {} THEN <<>>
     ELSE LET startDot == MaxOf(dots)
          IN IF startDot = 1 THEN <<>>
             ELSE IF s = <<Dot, Dot>> THEN <<>>
             ELSE SubSeq(s, startDot, Len(s))

\* path.basename(name, ext) of a name without separators
basename(s, ext) ==
  IF ext = s THEN <<>>
  ELSE IF ext # <<>> /\ Len(ext) <= Len(s) /\ SubSeq(s, Len(s) - Len(ext) + 1, Len(s)) = ext
  THEN SubSeq(s, 1, Len(s) - Len(ext))
  ELSE s

\* s.slice(0, end): a negative end counts from the end of s
slice(s, end) ==
  LET last == IF end < 0 THEN Len(s) + end ELSE Min(end, Len(s))
  IN SubSeq(s, 1, last)

\* the branch of safe.length > maxLength
truncate(safe) ==
  LET ext == extname(safe)
      base == basename(safe, ext)
  IN slice(base, maxLength - Len(ext)) \o ext

\* the four replace calls of sanitizeFilename
replaceAll(filename) ==
  stripLeadingDots(replaceUnsafe(replaceDotDot(replaceSeparators(filename))))

\* sanitizeFilename: what it returns, or <<>> where it throws
sanitizeFilename(filename) ==
  IF filename = <<>> THEN <<>>
  ELSE LET safe == replaceAll(filename)
       IN IF Len(safe) > maxLength THEN truncate(safe) ELSE safe

\* One call of sanitizeFilename
SanitizeFilename ==
  /\ sanitizing.outcome = "none"
  /\ LET safe == sanitizeFilename(sanitizing.input)
     IN sanitizing' = [sanitizing EXCEPT
                         !.outcome = IF safe = <<>> THEN "thrown" ELSE "returned",
                         !.value = safe]
  /\ UNCHANGED <<disk, wstate, mem, activeJobs, currentJob, tasks, monitor, validating,
                 maxConcurrentJobs, nextJobId, now, deletedJobs, tempFiles, tempDir,
                 pipelineVars>>

\* this.allowedDirs, in an environment whose home is /h, whose temp directory is
\* /tmp and whose working directory is /h/w
homedir == <<Slash, "h">>
tmp == <<Slash, "t", "m", "p">>
varTmp == <<Slash, "v", "a", "r", Slash, "t", "m", "p">>
tmpdir == tmp
cwd == <<Slash, "h", Slash, "w">>
allowedDirs == {homedir, tmp, varTmp, tmpdir, cwd}

\* this.dangerousPatterns, each a literal searched anywhere in the path
dangerousPatterns ==
  {<<Dot, Dot>>,
   <<"~", Slash, Dot, Dot>>,
   <<Slash, "e", "t", "c", Slash>>,
   <<Slash, "r", "o", "o", "t", Slash>>,
   <<Slash, "s", "y", "s", Slash>>,
   <<Slash, "p", "r", "o", "c", Slash>>,
   <<NullByte>>}

\* path.split('/')
RECURSIVE splitPath(_)
splitPath(path) ==
  LET e == SkipUntil(path, 1, {Slash})
  IN IF e > Len(path) THEN <<path>>
     ELSE <<SubSeq(path, 1, e - 1)>> \o splitPath(SubSeq(path, e + 1, Len(path)))

\* segments.join('/')
RECURSIVE joinPath(_)
joinPath(segments) ==
  IF segments = <<>> THEN <<>>
  ELSE IF Len(segments) = 1 THEN segments[1]
  ELSE segments[1] \o <<Slash>> \o joinPath(Tail(segments))

\* normalizeString of path.resolve: empty and '.' segments are dropped, '..'
\* drops the segment before it (at the root, itself)
RECURSIVE normalizeSegments(_, _)
normalizeSegments(segments, done) ==
  IF segments = <<>> THEN done
  ELSE LET segment == Head(segments)
       IN IF segment \in {<<>>, <<Dot>>} THEN normalizeSegments(Tail(segments), done)
          ELSE IF segment = <<Dot, Dot>>
          THEN normalizeSegments(Tail(segments), SubSeq(done, 1, Len(done) - 1))
          ELSE normalizeSegments(Tail(segments), Append(done, segment))

\* The directories from the root down to a resolved path
segmentsOf(path) == normalizeSegments(splitPath(path), <<>>)

\* path.resolve(filePath): a relative path is taken from process.cwd()
resolve(filePath) ==
  LET absolute == IF filePath # <<>> /\ filePath[1] = Slash
                  THEN filePath ELSE cwd \o <<Slash>> \o filePath
  IN <<Slash>> \o joinPath(segmentsOf(absolute))

\* String.prototype.startsWith
startsWith(s, prefix) == Len(prefix) <= Len(s) /\ SubSeq(s, 1, Len(prefix)) = prefix

\* this.allowedDirs.some(dir => resolved.startsWith(path.resolve(dir)))
isAllowed(resolved) == \E dir \in allowedDirs : startsWith(resolved, resolve(dir))

\* path.extname(resolved).toLowerCase(): the extension of the last segment
extnameOfPath(resolved) ==
  LET segments == segmentsOf(resolved)
      ext == IF segments = <<>> THEN <<>> ELSE extname(segments[Len(segments)])
  IN [i \in 1..Len(ext) |-> toLower(ext[i])]

\* options.allowedExtensions: null, or the list the CLI passes
NoExtensions == {}
BookExtensions == {<<Dot, "p">>}

\* validateFilePath: TRUE where it throws. exists and symlink are what
\* fs.existsSync and fs.lstatSync(...).isSymbolicLink() answer for the resolved path
rejects(filePath, mustExist, allowSymlinks, allowedExtensions, exists, symlink) ==
  \/ filePath = <<>>
  \/ \E pattern \in dangerousPatterns : includes(filePath, pattern)
  \/ ~isAllowed(resolve(filePath))
  \/ mustExist /\ ~exists
  \/ ~allowSymlinks /\ exists /\ symlink
  \/ /\ allowedExtensions # NoExtensions
     /\ exists
     /\ extnameOfPath(resolve(filePath)) \notin allowedExtensions

\* One call of validateFilePath
ValidateFilePath(mustExist, allowSymlinks, allowedExtensions, exists, symlink) ==
  /\ validating.outcome = "none"
  /\ LET filePath == validating.input
     IN validating' =
          IF rejects(filePath, mustExist, allowSymlinks, allowedExtensions, exists, symlink)
          THEN [validating EXCEPT !.outcome = "thrown"]
          ELSE [validating EXCEPT !.outcome = "returned", !.value = resolve(filePath)]
  /\ UNCHANGED <<disk, wstate, mem, activeJobs, currentJob, tasks, monitor, sanitizing,
                 maxConcurrentJobs, nextJobId, now, deletedJobs, tempFiles, tempDir,
                 pipelineVars>>

\* ------------------------------------------------------------ lib/queue.js
RECURSIVE SumWords(_)
SumWords(chapters) ==
  IF chapters = <<>> THEN 0
  ELSE Head(chapters).wordCount + SumWords(Tail(chapters))

\* the estimate truncated instead of rounded up
FloorDiv(a, b) == a \div b

\* Math.ceil(a / b) for a >= 0 and b > 0
CeilDiv(a, b) == (a + b - 1) \div b

createJob(d, jobId, at, chapters) ==
  LET totalWords == SumWords(chapters)
      job == [status |-> "pending",
              total_chapters |-> Len(chapters),
              completed_chapters |-> 0,
              total_words |-> totalWords,
              estimated_minutes |-> CeilDiv(totalWords, WordsPerMinute),
              output_dir |-> null,
              created_at |-> at,
              error |-> null]
      newIds == {<<jobId, i>> : i \in 1..Len(chapters)}
      newChapters ==
        [c \in newIds |-> [job_id |-> jobId,
                           chapter_num |-> chapters[c[2]].number,
                           word_count |-> chapters[c[2]].wordCount,
                           status |-> "pending",
                           audio_file |-> null,
                           error |-> null]]
  IN [jobs |-> (jobId :> job) @@ d.jobs,
      chapters |-> newChapters @@ d.chapters]

ChaptersOf(d, jobId) == {c \in DOMAIN d.chapters : d.chapters[c].job_id = jobId}

\* Array.prototype.sort is stable: equal chapter_num keep insertion order,
\* which for the chapters of one job is the order of the createJob input.
RECURSIVE SortByChapterNum(_, _)
SortByChapterNum(d, cs) ==
  IF cs = {} THEN <<>>
  ELSE LET first == CHOOSE c \in cs : \A o \in cs :
                       \/ d.chapters[c].chapter_num < d.chapters[o].chapter_num
                       \/ /\ d.chapters[c].chapter_num = d.chapters[o].chapter_num
                          /\ c[2] <= o[2]
       IN <<first>> \o SortByChapterNum(d, cs \ {first})

\* the chapters of the job in descending chapter_num
getJobChaptersDescending(d, jobId) ==
  IF jobId \notin DOMAIN d.jobs THEN <<>>
  ELSE LET s == SortByChapterNum(d, ChaptersOf(d, jobId))
       IN [i \in 1..Len(s) |-> s[Len(s) + 1 - i]]

\* getJob(jobId).chapters, as the sequence of chapter ids
getJobChapters(d, jobId) ==
  IF jobId \notin DOMAIN d.jobs THEN <<>>
  ELSE SortByChapterNum(d, ChaptersOf(d, jobId))

\* getJob(jobId): null, or the job with its chapters sorted by chapter_num
getJob(d, jobId) ==
  IF jobId \notin DOMAIN d.jobs THEN null
  ELSE [job |-> d.jobs[jobId], chapters |-> getJobChapters(d, jobId)]

\* a job stays selectable while it is being processed
UnfinishedJobs(d) == {j \in DOMAIN d.jobs : d.jobs[j].status \in {"pending", "processing"}}
\* the filter of getNextPendingJob
PendingJobs(d) == {j \in DOMAIN d.jobs : d.jobs[j].status = "pending"}

\* filter by job_id and pending, sort by chapter_num ascending, take [0] || null
getNextPendingChapter(d, jobId) ==
  LET pending == {c \in ChaptersOf(d, jobId) : d.chapters[c].status = "pending"}
  IN IF pending = {} THEN NoChapter ELSE SortByChapterNum(d, pending)[1]

\* the newest pending job instead of the oldest (the order of getAllJobs)
getNextPendingJobNewest(d) ==
  IF PendingJobs(d) = {} THEN NoJob
  ELSE CHOOSE j \in PendingJobs(d) : \A o \in PendingJobs(d) :
         \/ d.jobs[j].created_at > d.jobs[o].created_at
         \/ /\ d.jobs[j].created_at = d.jobs[o].created_at
            /\ j >= o

\* filter pending, sort by created_at ascending (stable: ties keep the
\* document's key order, which is creation order), take [0] || null
getNextPendingJob(d) ==
  IF PendingJobs(d) = {} THEN NoJob
  ELSE CHOOSE j \in PendingJobs(d) : \A o \in PendingJobs(d) :
         \/ d.jobs[j].created_at < d.jobs[o].created_at
         \/ /\ d.jobs[j].created_at = d.jobs[o].created_at
            /\ j <= o

\* the status is set and the error argument is dropped
updateJobStatusDropsError(d, jobId, status, error) ==
  IF jobId \notin DOMAIN d.jobs THEN d
  ELSE [d EXCEPT !.jobs[jobId].status = status]

updateJobStatus(d, jobId, status, error) ==
  IF jobId \notin DOMAIN d.jobs THEN d
  ELSE [d EXCEPT !.jobs[jobId].status = status,
                 !.jobs[jobId].error = IF error # null /\ error # "" THEN error ELSE @]

\* the job record is created when the id is unknown
updateJobOutputDirUpsert(d, jobId, outputDir) ==
  IF jobId \notin DOMAIN d.jobs
  THEN [d EXCEPT !.jobs = (jobId :> [output_dir |-> outputDir]) @@ @]
  ELSE [d EXCEPT !.jobs[jobId].output_dir = outputDir]

updateJobOutputDir(d, jobId, outputDir) ==
  IF jobId \notin DOMAIN d.jobs THEN d
  ELSE [d EXCEPT !.jobs[jobId].output_dir = outputDir]

\* the count is incremented on every completion update instead of recounted
CountCompletedIncrement(d, jobId) == d.jobs[jobId].completed_chapters + 1

\* the recount of updateChapterStatus
CountCompleted(d, jobId) ==
  Cardinality({c \in ChaptersOf(d, jobId) : d.chapters[c].status = "completed"})

\* the file is assigned on every update: chapter.audio_file = audioFile
updateChapterStatusAssigningFile(d, chapterId, status, audioFile, error) ==
  IF chapterId \notin DOMAIN d.chapters THEN d
  ELSE LET d1 == [d EXCEPT
                    !.chapters[chapterId].status = status,
                    !.chapters[chapterId].audio_file = audioFile,
                    !.chapters[chapterId].error =
                        IF error # null /\ error # "" THEN error ELSE @]
           jobId == d.chapters[chapterId].job_id
       IN IF status = "completed" /\ jobId \in DOMAIN d1.jobs
          THEN [d1 EXCEPT !.jobs[jobId].completed_chapters = CountCompleted(d1, jobId)]
          ELSE d1

updateChapterStatus(d, chapterId, status, audioFile, error) ==
  IF chapterId \notin DOMAIN d.chapters THEN d
  ELSE LET d1 == [d EXCEPT
                    !.chapters[chapterId].status = status,
                    !.chapters[chapterId].audio_file =
                        IF audioFile # null /\ audioFile # "" THEN audioFile ELSE @,
                    !.chapters[chapterId].error =
                        IF error # null /\ error # "" THEN error ELSE @]
           jobId == d.chapters[chapterId].job_id
       IN IF status = "completed" /\ jobId \in DOMAIN d1.jobs
          THEN [d1 EXCEPT !.jobs[jobId].completed_chapters = CountCompleted(d1, jobId)]
          ELSE d1

deleteJob(d, jobId) ==
  [jobs |-> Restrict(d.jobs, DOMAIN d.jobs \ {jobId}),
   chapters |-> Restrict(d.chapters, DOMAIN d.chapters \ ChaptersOf(d, jobId))]

\* -------------------------------------------------------- backend/worker.js
Running(w) == wstate[w] = "running"

\* Math.min(1000 * Math.pow(2, attempt), 30000)
Backoff(attempt) == Min(BackoffBase * Pow2(attempt), BackoffCap)

\* processNext: `if (this.activeJobs >= this.settings.maxConcurrentJobs) return`
AtCapacityOffByOne(w) == activeJobs[w] > maxConcurrentJobs
\* the poll loop waits for the dispatched job: no dispatch while a job is in flight
AtCapacityWhileBusy(w) == activeJobs[w] >= 1
AtCapacity(w) == activeJobs[w] >= maxConcurrentJobs

\* processChapterWithRetry: true when the failed attempt was the last one
FinalAttemptEarly(attempt) == attempt >= MaxRetries - 1
FinalAttempt(attempt) == attempt = MaxRetries

\* processJob: the for-of loop over fullJob.chapters has a chapter left
HasNextChapterSkipsLast(t) == t.idx + 1 < Len(t.chapters)
HasNextChapter(t) == t.idx < Len(t.chapters)

\* every attempt puts the chapter back in the queue of pending chapters
BeginChapterAsPending(d, chapterId) == updateChapterStatus(d, chapterId, "pending", null, null)
\* processChapter up to its await: the chapter is marked processing
BeginChapter(d, chapterId) == updateChapterStatus(d, chapterId, "processing", null, null)

\* The task of a job whose first chapter has just been handed to the TTS engine
NewTask(chapters) ==
  [chapters |-> chapters, idx |-> 1, attempt |-> 1, pc |-> "tts",
   calls |-> 1, waits |-> <<>>]

\* the slot is released in the try block only: a failed job keeps its slot
ReleaseOnSuccessOnly(w, jobId) ==
  /\ activeJobs' = [activeJobs EXCEPT ![w] =
                      IF mem'[w].jobs[jobId].status = "failed" THEN @ ELSE @ - 1]
  /\ currentJob' = [currentJob EXCEPT ![w] = IF activeJobs[w] - 1 > 0 THEN jobId ELSE NoJob]
  /\ tasks' = [tasks EXCEPT ![w] = Restrict(@, DOMAIN @ \ {jobId})]

\* The end of processJobAsync: the slot is released and the task is gone
Release(w, jobId) ==
  /\ activeJobs' = [activeJobs EXCEPT ![w] = @ - 1]
  /\ currentJob' = [currentJob EXCEPT ![w] = IF activeJobs[w] - 1 > 0 THEN jobId ELSE NoJob]
  /\ tasks' = [tasks EXCEPT ![w] = Restrict(@, DOMAIN @ \ {jobId})]

\* saveQueue(): the whole document is rewritten from this process's copy
Save(w, d) ==
  /\ mem' = [mem EXCEPT ![w] = d]
  /\ disk' = d

\* file.endsWith(suffix)
endsWith(s, suffix) ==
  Len(suffix) <= Len(s) /\ SubSeq(s, Len(s) - Len(suffix) + 1, Len(s)) = suffix

JsonSuffix == <<Dot, "j", "s", "o", "n">>

\* The temp directory without a file of an earlier run
EmptyTempDir == [state |-> "listed", files |-> [n \in {} |-> n], cleaned |-> 0]

\* A cleanup that also removes the file that is exactly one hour old
unlinkedFromOneHour(name, file) ==
  /\ endsWith(name, JsonSuffix)
  /\ file.fault # "stat"
  /\ file.age >= StaleAge
  /\ file.fault # "unlink"

\* The body of files.forEach for one file: true when fs.unlinkSync(filePath)
\* has removed it.  file.age is Date.now() - stats.mtimeMs, and file.fault
\* tells which call on the file throws: "stat" (fs.statSync), "unlink"
\* (fs.unlinkSync) or "none"
unlinked(name, file) ==
  /\ endsWith(name, JsonSuffix)
  /\ file.fault # "stat"
  /\ file.age > StaleAge
  /\ file.fault # "unlink"

\* cleanupTempFiles() on the directory: nothing happens when it does not exist
\* ("missing": fs.existsSync is false) or when fs.readdirSync throws
\* ("unreadable": the outer catch logs a warning)
cleanupDir(dir) ==
  IF dir.state # "listed" THEN [dir EXCEPT !.cleaned = 0]
  ELSE LET gone == {n \in DOMAIN dir.files : unlinked(n, dir.files[n])}
       IN [dir EXCEPT !.files = Restrict(@, DOMAIN @ \ gone),
                      !.cleaned = Cardinality(gone)]

\* start(): the .json files of the temp directory older than one hour are
\* removed (the age of the temp file of a chapter of the queue is not
\* modelled: any of them may be that old)
cleanupTempFiles ==
  /\ tempDir' = cleanupDir(tempDir)
  /\ \E stale \in SUBSET tempFiles :
       /\ tempDir.state # "listed" => stale = {}
       /\ tempFiles' = tempFiles \ stale

\* processChapter: fs.writeFileSync(tempChapterFile, ...) creates or overwrites
writeTempFile(files, chapterId) == files \cup {chapterId}

\* processChapter: fs.unlinkSync(tempChapterFile), reached only when the await of
\* callTTSEngine did not throw
unlinkTempFile(files, chapterId) == files \ {chapterId}

\* ---- lib/memory-monitor.js, started by initializeSettings of the worker ----
\* settings.enableMemoryMonitoring: true in the low and the medium profile
enableMemoryMonitoring == maxConcurrentJobs \in ConcurrencyLevels

\* settings.memoryThreshold of the active profile, in percent
memoryThreshold ==
  CASE maxConcurrentJobs = LowConcurrentJobs -> LowMemoryThreshold
    [] maxConcurrentJobs = MediumConcurrentJobs -> MediumMemoryThreshold
    [] maxConcurrentJobs = HighConcurrentJobs -> HighMemoryThreshold

\* What check() finds: usage below threshold, at or above it, at or above gcThreshold
MemoryLevels == {"ok", "warning", "critical"}

\* this.stats of a new MemoryMonitor (peakUsage and totalUsage, which only the
\* summary prints, are left out)
NoSamples == [checks |-> 0, warnings |-> 0, criticals |-> 0, gcTriggered |-> 0]

\* this.memoryMonitor = null
NoMonitor ==
  [options |-> [enabled |-> FALSE, threshold |-> 0, gcThreshold |-> 0], stats |-> NoSamples]

\* new MemoryMonitor({enabled: true, threshold, ...}): the worker passes no
\* gcThreshold, so the constructor takes its default
MemoryMonitor(threshold) ==
  [options |-> [enabled |-> TRUE,
                threshold |-> IF threshold = 0 THEN DefaultThreshold ELSE threshold,
                gcThreshold |-> DefaultGcThreshold],
   stats |-> NoSamples]

\* initializeSettings: the monitor the worker builds, if any
buildMonitor == IF enableMemoryMonitoring THEN MemoryMonitor(memoryThreshold) ELSE NoMonitor

\* check(): result.level of a sample at the given usage, in percent
levelOf(options, usage) ==
  IF usage >= options.gcThreshold THEN "critical"
  ELSE IF usage >= options.threshold THEN "warning"
  ELSE "ok"

\* check(): the counters of one sample; global.gc exists only under --expose-gc
check(stats, level, gcExposed) ==
  [checks |-> stats.checks + 1,
   warnings |-> IF level = "warning" THEN stats.warnings + 1 ELSE stats.warnings,
   criticals |-> IF level = "critical" THEN stats.criticals + 1 ELSE stats.criticals,
   gcTriggered |-> IF level = "critical" /\ gcExposed
                   THEN stats.gcTriggered + 1 ELSE stats.gcTriggered]

\* a critical sample that did pause: the worker takes no further job
onSamplePausing(w, level) ==
  /\ activeJobs' = [activeJobs EXCEPT
                      ![w] = IF level = "critical" THEN maxConcurrentJobs ELSE @]
  /\ UNCHANGED <<disk, wstate, mem, currentJob, tasks>>
\* onWarning and onCritical of the worker: this.log(...) and nothing else
onSample(w, level) == UNCHANGED <<disk, wstate, mem, activeJobs, currentJob, tasks>>

\* One sample: the check() of start() or of a tick of its setInterval, at the
\* usage, in percent, that getMemoryStats() reports
MemoryCheck(w, usage, gcExposed) ==
  /\ Running(w)
  /\ monitor[w].options.enabled
  /\ monitor[w].stats.checks < MaxSamples
  /\ LET level == levelOf(monitor[w].options, usage)
     IN /\ monitor' = [monitor EXCEPT ![w].stats = check(@, level, gcExposed)]
        /\ onSample(w, level)
  /\ UNCHANGED <<maxConcurrentJobs, nextJobId, now, deletedJobs, tempFiles,
                 tempDir, pathVars, pipelineVars>>

\* new Worker() and start() up to the poll loop: the Queue constructor loads the
\* document, once
WorkerStart(w) ==
  /\ wstate[w] = "new"
  /\ \A v \in Workers : v < w => wstate[v] # "new"
  /\ wstate' = [wstate EXCEPT ![w] = "running"]
  /\ mem' = [mem EXCEPT ![w] = disk]
  /\ cleanupTempFiles
  /\ monitor' = [monitor EXCEPT ![w] = buildMonitor]
  /\ UNCHANGED <<disk, activeJobs, currentJob, tasks, maxConcurrentJobs,
                 nextJobId, now, deletedJobs, pathVars, pipelineVars>>

\* shutdown() on SIGINT/SIGTERM, or a crash: the process exits with its jobs in flight
WorkerStop(w) ==
  /\ Running(w)
  /\ wstate' = [wstate EXCEPT ![w] = "exited"]
  /\ mem' = [mem EXCEPT ![w] = EmptyDoc]
  /\ activeJobs' = [activeJobs EXCEPT ![w] = 0]
  /\ currentJob' = [currentJob EXCEPT ![w] = NoJob]
  /\ tasks' = [tasks EXCEPT ![w] = [j \in {} |-> j]]
  /\ UNCHANGED <<disk, maxConcurrentJobs, nextJobId, now, deletedJobs, tempFiles,
                 monitor, tempDir, pathVars, pipelineVars>>

\* One poll that dispatches: processNext, processJobAsync and processJob up to
\* the first await (the TTS call of the first chapter), or up to the catch of
\* processJobAsync when mkdirSync throws.
Poll(w, mkdirOk) ==
  /\ Running(w)
  /\ ~AtCapacity(w)
  /\ getNextPendingJob(mem[w]) # NoJob
  /\ LET jobId == getNextPendingJob(mem[w])
         d1 == updateJobStatus(mem[w], jobId, "processing", null)
         d2 == updateJobOutputDir(d1, jobId, OutputDir)
         chapters == getJobChapters(d2, jobId)
     IN IF ~mkdirOk
        THEN /\ Save(w, updateJobStatus(d1, jobId, "failed", MkdirMessage))
             /\ currentJob' = [currentJob EXCEPT
                                 ![w] = IF activeJobs[w] > 0 THEN jobId ELSE NoJob]
             /\ UNCHANGED <<activeJobs, tasks, tempFiles>>
        ELSE IF chapters = <<>>
        THEN /\ Save(w, updateJobStatus(d2, jobId, "completed", null))
             /\ currentJob' = [currentJob EXCEPT
                                 ![w] = IF activeJobs[w] > 0 THEN jobId ELSE NoJob]
             /\ UNCHANGED <<activeJobs, tasks, tempFiles>>
        ELSE /\ Save(w, BeginChapter(d2, chapters[1]))
             /\ tempFiles' = writeTempFile(tempFiles, chapters[1])
             /\ activeJobs' = [activeJobs EXCEPT ![w] = @ + 1]
             /\ currentJob' = [currentJob EXCEPT ![w] = jobId]
             /\ tasks' = [tasks EXCEPT ![w] = (jobId :> NewTask(chapters)) @@ @]
  /\ UNCHANGED <<wstate, maxConcurrentJobs, nextJobId, now, deletedJobs, monitor, tempDir, pathVars, pipelineVars>>

\* The TTS call of the task's chapter returns with a success result: the rest of
\* processChapter, the second completion update of processJob, and then either the
\* next chapter up to its TTS call or the end of processJobAsync.
TtsSucceeds(w, jobId) ==
  /\ Running(w)
  /\ jobId \in DOMAIN tasks[w]
  /\ tasks[w][jobId].pc = "tts"
  /\ LET t == tasks[w][jobId]
         ch == t.chapters[t.idx]
         d1 == updateChapterStatus(mem[w], ch, "completed", AudioFile, null)
         d2 == updateChapterStatus(d1, ch, "completed", null, null)
     IN IF HasNextChapter(t)
        THEN /\ Save(w, BeginChapter(d2, t.chapters[t.idx + 1]))
             /\ tempFiles' = writeTempFile(unlinkTempFile(tempFiles, ch), t.chapters[t.idx + 1])
             /\ tasks' = [tasks EXCEPT ![w][jobId] =
                            [t EXCEPT !.idx = t.idx + 1, !.attempt = 1, !.pc = "tts",
                                      !.calls = 1, !.waits = <<>>]]
             /\ UNCHANGED <<activeJobs, currentJob>>
        ELSE /\ Save(w, updateJobStatus(d2, jobId, "completed", null))
             /\ tempFiles' = unlinkTempFile(tempFiles, ch)
             /\ Release(w, jobId)
  /\ UNCHANGED <<wstate, maxConcurrentJobs, nextJobId, now, deletedJobs, monitor, tempDir, pathVars, pipelineVars>>

\* The TTS call returns without success or its promise is rejected: the catch of
\* processChapterWithRetry, which waits, or rethrows after the last attempt into
\* the catch of processJob and of processJobAsync.
TtsFails(w, jobId, outcome) ==
  /\ Running(w)
  /\ jobId \in DOMAIN tasks[w]
  /\ tasks[w][jobId].pc = "tts"
  /\ outcome # "ok"
  /\ LET t == tasks[w][jobId]
         ch == t.chapters[t.idx]
         msg == TtsMessage(outcome)
     IN /\ tempFiles' = IF outcome = "rejected" THEN tempFiles
                        ELSE unlinkTempFile(tempFiles, ch)
        /\ IF FinalAttempt(t.attempt)
           THEN /\ Save(w, updateJobStatus(
                             updateChapterStatus(mem[w], ch, "failed", null, msg),
                             jobId, "failed", msg))
                /\ Release(w, jobId)
           ELSE /\ tasks' = [tasks EXCEPT ![w][jobId] =
                               [t EXCEPT !.pc = "backoff",
                                         !.waits = Append(t.waits, Backoff(t.attempt))]]
                /\ UNCHANGED <<mem, disk, activeJobs, currentJob>>
  /\ UNCHANGED <<wstate, maxConcurrentJobs, nextJobId, now, deletedJobs, monitor, tempDir, pathVars, pipelineVars>>

\* The backoff timer fires: the next attempt of the same chapter begins
BackoffElapsed(w, jobId) ==
  /\ Running(w)
  /\ jobId \in DOMAIN tasks[w]
  /\ tasks[w][jobId].pc = "backoff"
  /\ LET t == tasks[w][jobId]
     IN /\ Save(w, BeginChapter(mem[w], t.chapters[t.idx]))
        /\ tempFiles' = writeTempFile(tempFiles, t.chapters[t.idx])
        /\ tasks' = [tasks EXCEPT ![w][jobId] =
                       [t EXCEPT !.attempt = t.attempt + 1, !.pc = "tts",
                                 !.calls = t.calls + 1]]
  /\ UNCHANGED <<wstate, activeJobs, currentJob, maxConcurrentJobs,
                 nextJobId, now, deletedJobs, monitor, tempDir, pathVars, pipelineVars>>

\* ------------------------------------------------------------ cli/index.js
\* A CLI command runs `new Queue()` and its one Queue call back to back in
\* synchronous code: it is taken as one step that loads the document, changes
\* it and rewrites it.  A command never touches a worker's copy.

\* processFile: queue.createJob(filePath, result.chapters)
CliCreateJob(chapters) ==
  /\ nextJobId <= MaxJobs
  /\ \E at \in {now, now + 1} :
       /\ now' = at
       /\ disk' = createJob(disk, nextJobId, at, chapters)
  /\ nextJobId' = nextJobId + 1
  /\ UNCHANGED <<wstate, mem, activeJobs, currentJob, tasks, maxConcurrentJobs,
                 deletedJobs, tempFiles, monitor, tempDir, pathVars, pipelineVars>>

\* cancelJob: returns early on an unknown or a completed job
CliCancelJob(jobId) ==
  /\ jobId \in DOMAIN disk.jobs
  /\ disk.jobs[jobId].status # "completed"
  /\ disk' = updateJobStatus(disk, jobId, "failed", CancelMessage)
  /\ UNCHANGED <<wstate, mem, activeJobs, currentJob, tasks, maxConcurrentJobs,
                 nextJobId, now, deletedJobs, tempFiles, monitor, tempDir, pathVars, pipelineVars>>

\* deleteAudiobook: returns early on an unknown job
CliDeleteJob(jobId) ==
  /\ jobId \in DOMAIN disk.jobs
  /\ disk' = deleteJob(disk, jobId)
  /\ deletedJobs' = deletedJobs \cup {jobId}
  /\ UNCHANGED <<wstate, mem, activeJobs, currentJob, tasks, maxConcurrentJobs,
                 nextJobId, now, tempFiles, monitor, tempDir, pathVars, pipelineVars>>

\* ------------------------------------------------- the Queue API by itself
\* One Queue instance called with arbitrary arguments, known and unknown ids
\* alike; after each call its this.data is the persisted document, held in disk.
StoreUnchanged ==
  UNCHANGED <<wstate, mem, activeJobs, currentJob, tasks, maxConcurrentJobs,
              deletedJobs, tempFiles, monitor, tempDir, pathVars, pipelineVars>>

StoreCreateJob(chapters) ==
  /\ nextJobId <= MaxStoreJobs
  /\ \E at \in {now, now + 1} :
       /\ now' = at
       /\ disk' = createJob(disk, nextJobId, at, chapters)
  /\ nextJobId' = nextJobId + 1
  /\ StoreUnchanged

StoreUpdateJobStatus(jobId, status, error) ==
  /\ disk' = updateJobStatus(disk, jobId, status, error)
  /\ UNCHANGED <<nextJobId, now>>
  /\ StoreUnchanged

StoreUpdateJobOutputDir(jobId, outputDir) ==
  /\ disk' = updateJobOutputDir(disk, jobId, outputDir)
  /\ UNCHANGED <<nextJobId, now>>
  /\ StoreUnchanged

StoreUpdateChapterStatus(chapterId, status, audioFile, error) ==
  /\ disk' = updateChapterStatus(disk, chapterId, status, audioFile, error)
  /\ UNCHANGED <<nextJobId, now>>
  /\ StoreUnchanged

StoreDeleteJob(jobId) ==
  /\ disk' = deleteJob(disk, jobId)
  /\ UNCHANGED <<nextJobId, now>>
  /\ StoreUnchanged

\* ---- saveQueue and loadQueue: the document as the JSON text of queue.json ----
\* The fields of the model that hold a number (job_id stands for a uuid string
\* and is kept as the model keeps it); every other field holds a string or null
NumberFields == {"total_chapters", "completed_chapters", "total_words", "estimated_minutes",
                 "created_at", "job_id", "chapter_num", "word_count"}

\* JSON.stringify of one value: a number, a quoted string, or the token null
toJSON(field, value) ==
  IF field \in NumberFields THEN [json |-> "number", number |-> value, string |-> ""]
  ELSE IF value = null THEN [json |-> "null", number |-> 0, string |-> ""]
  ELSE [json |-> "string", number |-> 0, string |-> value]

\* JSON.parse of one value
fromJSON(token) ==
  CASE token.json = "number" -> token.number
    [] token.json = "string" -> token.string
    [] token.json = "null" -> null

\* the members of one object of the text: its key, each of its fields, its value
members(objects) ==
  {[id |-> id, field |-> field, token |-> toJSON(field, objects[id][field])] :
     id \in DOMAIN objects, field \in UNION {DOMAIN objects[i] : i \in DOMAIN objects}}

\* a text that leaves out the fields whose value is null
stringifyWithoutNull(d) ==
  [jobs |-> {m \in members(d.jobs) : m.token.json # "null"},
   chapters |-> {m \in members(d.chapters) : m.token.json # "null"}]
\* JSON.stringify(this.data, null, 2): every field of every job and chapter (no
\* field of a stored job or chapter is undefined)
stringify(d) == [jobs |-> members(d.jobs), chapters |-> members(d.chapters)]

\* the objects JSON.parse builds from the members of the text
objectsOf(ms) ==
  [id \in {m.id : m \in ms} |->
     [field \in {m.field : m \in {n \in ms : n.id = id}} |->
        fromJSON((CHOOSE m \in ms : m.id = id /\ m.field = field).token)]]

\* JSON.parse(fs.readFileSync(this.queueFile, 'utf8'))
parse(text) == [jobs |-> objectsOf(text.jobs), chapters |-> objectsOf(text.chapters)]

\* saveQueue() by the caller, then loadQueue() of a Queue constructed afterwards:
\* what that instance holds
saveAndLoad(d) == parse(stringify(d))

\* One Queue instance, the caller, whose this.data is mem[1]; disk is what a
\* Queue constructed after the call reads from queue.json
QueueUnchanged ==
  UNCHANGED <<wstate, activeJobs, currentJob, tasks, maxConcurrentJobs,
              deletedJobs, tempFiles, monitor, tempDir, pathVars, pipelineVars>>

\* this.data = data; this.saveQueue()
QueueSave(data) ==
  /\ mem' = [mem EXCEPT ![1] = data]
  /\ disk' = saveAndLoad(data)

QueueCreateJob(chapters) ==
  /\ nextJobId <= MaxStoreJobs
  /\ \E at \in {now, now + 1} :
       /\ now' = at
       /\ QueueSave(createJob(mem[1], nextJobId, at, chapters))
  /\ nextJobId' = nextJobId + 1
  /\ QueueUnchanged

\* if (!job) return: nothing is changed and nothing is written
QueueUpdateJobStatus(jobId, status, error) ==
  /\ IF jobId \in DOMAIN mem[1].jobs
     THEN QueueSave(updateJobStatus(mem[1], jobId, status, error))
     ELSE UNCHANGED <<mem, disk>>
  /\ UNCHANGED <<nextJobId, now>>
  /\ QueueUnchanged

QueueUpdateJobOutputDir(jobId, outputDir) ==
  /\ IF jobId \in DOMAIN mem[1].jobs
     THEN QueueSave(updateJobOutputDir(mem[1], jobId, outputDir))
     ELSE UNCHANGED <<mem, disk>>
  /\ UNCHANGED <<nextJobId, now>>
  /\ QueueUnchanged

QueueUpdateChapterStatus(chapterId, status, audioFile, error) ==
  /\ IF chapterId \in DOMAIN mem[1].chapters
     THEN QueueSave(updateChapterStatus(mem[1], chapterId, status, audioFile, error))
     ELSE UNCHANGED <<mem, disk>>
  /\ UNCHANGED <<nextJobId, now>>
  /\ QueueUnchanged

QueueDeleteJob(jobId) ==
  /\ QueueSave(deleteJob(mem[1], jobId))
  /\ UNCHANGED <<nextJobId, now>>
  /\ QueueUnchanged

\* ---------------------------------------------------------- specifications
\* No worker process exists yet
InitProcesses ==
  /\ wstate = [w \in Workers |-> "new"]
  /\ mem = [w \in Workers |-> EmptyDoc]
  /\ activeJobs = [w \in Workers |-> 0]
  /\ currentJob = [w \in Workers |-> NoJob]
  /\ tasks = [w \in Workers |-> [j \in {} |-> j]]
  /\ maxConcurrentJobs \in ConcurrencyLevels
  /\ deletedJobs = {}
  /\ tempFiles = {}
  /\ monitor = [w \in Workers |-> NoMonitor]

\* No earlier run has left a file in the temp directory
InitTemp == tempDir = EmptyTempDir

\* The PathValidator has not been called
InitPaths ==
  /\ sanitizing = NoCall
  /\ validating = NoCall

\* No file is being processed
InitPipeline ==
  /\ rawText = <<>>
  /\ cleaning = NotCleaned
  /\ normalized = <<>>
  /\ cleanedText = EmptyText
  /\ detected = <<>>
  /\ cleaner = "none"

\* A fresh installation: loadQueue finds no file and writes { jobs: {}, chapters: {} }
Init ==
  /\ InitProcesses
  /\ InitTemp
  /\ InitPaths
  /\ InitPipeline
  /\ disk = EmptyDoc
  /\ nextJobId = 1
  /\ now = 0

CliStep ==
  \/ \E chapters \in ChapterInputs : CliCreateJob(chapters)
  \/ \E j \in JobIds : CliCancelJob(j)
  \/ \E j \in JobIds : CliDeleteJob(j)

WorkerStep(w) ==
  \/ \E mkdirOk \in BOOLEAN : Poll(w, mkdirOk)
  \/ \E j \in JobIds : TtsSucceeds(w, j)
  \/ \E j \in JobIds, outcome \in TtsOutcomes : TtsFails(w, j, outcome)
  \/ \E j \in JobIds : BackoffElapsed(w, j)

\* Worker processes one after the other (a restart after a shutdown or a
\* crash), each process started once, beside the CLI
Next ==
  \/ CliStep
  \/ \E w \in Workers : (\A v \in Workers : ~Running(v)) /\ WorkerStart(w)
  \/ \E w \in Workers : WorkerStop(w)
  \/ \E w \in Workers : WorkerStep(w)

Spec == Init /\ [][Next]_vars

\* One worker process that keeps running, beside the CLI
NextOne ==
  \/ CliStep
  \/ WorkerStart(1)
  \/ WorkerStep(1)

SpecOne == Init /\ [][NextOne]_vars

\* The worker keeps running: its poll loop runs every 5 s, every TTS call ends
\* and every backoff timer fires
FairOne ==
  /\ SpecOne
  /\ WF_vars(WorkerStart(1))
  /\ WF_vars(\E mkdirOk \in BOOLEAN : Poll(1, mkdirOk))
  /\ \A j \in JobIds :
       /\ WF_vars(TtsSucceeds(1, j) \/ \E outcome \in TtsOutcomes : TtsFails(1, j, outcome))
       /\ WF_vars(BackoffElapsed(1, j))

\* One worker process whose memory monitor samples beside it, jobs being created
UsagePercents == {80, 85, 90, 95, 100}
MemoryStep(w) ==
  \E usage \in UsagePercents, gcExposed \in BOOLEAN : MemoryCheck(w, usage, gcExposed)

NextMonitor ==
  \/ \E chapters \in ChapterInputs : CliCreateJob(chapters)
  \/ WorkerStart(1)
  \/ WorkerStep(1)
  \/ MemoryStep(1)

SpecMonitor == Init /\ [][NextMonitor]_vars

\* processFile followed by startWorker, once per submitted file: the workers run
\* side by side, each with the copy of the document it loaded at its start
Spawned(w) == nextJobId > w

NextSpawned ==
  \/ \E chapters \in ChapterInputs : CliCreateJob(chapters)
  \/ \E w \in Workers : Spawned(w) /\ WorkerStart(w)
  \/ \E w \in Workers : Poll(w, TRUE)
  \/ \E w \in Workers, j \in JobIds : TtsSucceeds(w, j)

SpecSpawned == Init /\ [][NextSpawned]_vars

\* One worker process and a store that already holds a 4-chapter job
InitFour ==
  /\ InitProcesses
  /\ InitTemp
  /\ InitPaths
  /\ InitPipeline
  /\ disk = createJob(EmptyDoc, 1, 1, ChapterInput(1, 4))
  /\ nextJobId = 2
  /\ now = 1

SpecFour == InitFour /\ [][NextOne]_vars

\* The Queue API called in any order with any arguments
NextStore ==
  \/ \E chapters \in ChapterInputs : StoreCreateJob(chapters)
  \/ \E j \in JobIds, st \in StatusValues, e \in {null, MkdirMessage} :
       StoreUpdateJobStatus(j, st, e)
  \/ \E j \in JobIds : StoreUpdateJobOutputDir(j, OutputDir)
  \/ \E c \in ChapterIds, st \in StatusValues, a \in {null, AudioFile},
        e \in {null, TtsMessage("rejected")} :
       StoreUpdateChapterStatus(c, st, a, e)
  \/ \E j \in JobIds : StoreDeleteJob(j)

SpecStore == Init /\ [][NextStore]_vars

\* The Queue API of one instance, each call followed by what the file holds
NextPersist ==
  \/ \E chapters \in ChapterInputs : QueueCreateJob(chapters)
  \/ \E j \in JobIds, st \in StatusValues, e \in {null, MkdirMessage} :
       QueueUpdateJobStatus(j, st, e)
  \/ \E j \in JobIds : QueueUpdateJobOutputDir(j, OutputDir)
  \/ \E c \in ChapterIds, st \in StatusValues, a \in {null, AudioFile},
        e \in {null, TtsMessage("rejected")} :
       QueueUpdateChapterStatus(c, st, a, e)
  \/ \E j \in JobIds : QueueDeleteJob(j)

SpecPersist == Init /\ [][NextPersist]_vars

\* The temp directory a worker finds at its start: up to three .json files and
\* one other file left by earlier runs, young, exactly one hour old or older,
\* the older ones with or without a call that fails on them
TempFileNames == {<<"1">> \o JsonSuffix, <<"2">> \o JsonSuffix, <<"3">> \o JsonSuffix,
                  <<"1", Dot, "t", "x", "t">>}
TempFileStates ==
  {[age |-> age, fault |-> "none"] : age \in {0, StaleAge, StaleAge + 1}}
    \cup {[age |-> StaleAge + 1, fault |-> fault] : fault \in {"stat", "unlink"}}
TempDirs ==
  {[state |-> state, files |-> files, cleaned |-> 0] :
     state \in {"listed", "unreadable"},
     files \in UNION {[names -> TempFileStates] : names \in SUBSET TempFileNames}}
    \cup {[state |-> "missing", files |-> [n \in {} |-> n], cleaned |-> 0]}

InitCleanup ==
  /\ InitProcesses
  /\ tempDir \in TempDirs
  /\ InitPaths
  /\ InitPipeline
  /\ disk = EmptyDoc
  /\ nextJobId = 1
  /\ now = 0

NextCleanup ==
  \/ \E w \in Workers : WorkerStart(w)
  \/ \E w \in Workers : WorkerStop(w)

SpecCleanup == InitCleanup /\ [][NextCleanup]_vars

\* The segmenter of either TextCleaner applied to a text
InitSegment ==
  /\ InitProcesses
  /\ InitTemp
  /\ InitPaths
  /\ disk = EmptyDoc
  /\ nextJobId = 1
  /\ now = 0
  /\ rawText = <<>>
  /\ cleaning = NotCleaned
  /\ normalized = <<>>
  /\ cleanedText \in InputTexts
  /\ detected = <<>>
  /\ cleaner = "none"

NextSegment == DetectChapters \/ DetectChaptersV2

SpecSegment == InitSegment /\ [][NextSegment]_vars

\* processFile of either TextCleaner on one extracted text: cleanText, with at
\* most one stage failing inside, and then detectChapters on what it returned
InitClean ==
  /\ InitProcesses
  /\ InitTemp
  /\ InitPaths
  /\ maxConcurrentJobs = LowConcurrentJobs
  /\ disk = EmptyDoc
  /\ nextJobId = 1
  /\ now = 0
  /\ rawText \in SmallTexts \cup TocDocuments
  /\ cleaning = NotCleaned
  /\ normalized = <<>>
  /\ cleanedText = EmptyText
  /\ detected = <<>>
  /\ cleaner = "none"

DetectAfterClean ==
  /\ cleaning.by = "v1"
  /\ cleaning.outcome = "returned"
  /\ DetectChapters

DetectAfterCleanV2 ==
  /\ cleaning.by = "v2"
  /\ cleaning.outcome = "returned"
  /\ DetectChaptersV2

NextClean ==
  \/ \E failing \in {0} \cup Stages : CleanText(failing)
  \/ \E failing \in {0} \cup Stages : CleanTextV2(failing)
  \/ DetectAfterClean
  \/ DetectAfterCleanV2

SpecClean == InitClean /\ [][NextClean]_vars

\* normalizeWhitespace by itself, on every text of spaces, tabs, newlines and
\* a letter, and then on its own output
InitNormalize ==
  /\ InitProcesses
  /\ InitTemp
  /\ InitPaths
  /\ maxConcurrentJobs = LowConcurrentJobs
  /\ disk = EmptyDoc
  /\ nextJobId = 1
  /\ now = 0
  /\ rawText \in BlankTexts
  /\ cleaning = NotCleaned
  /\ normalized = <<>>
  /\ cleanedText = EmptyText
  /\ detected = <<>>
  /\ cleaner = "none"

NextNormalize == NormalizeWhitespace

SpecNormalize == InitNormalize /\ [][NextNormalize]_vars

\* sanitizeFilename by itself, on a short name or on one that follows a run of
\* letters long enough to bring it near maxLength or beyond
PadLengths == {0} \cup ((maxLength - MaxTailLen)..(maxLength - 2))
Pad(n) == [i \in 1..n |-> Letter]
NameTails == SeqsUpTo({Letter, Dot, Slash, Backslash}, MaxTailLen)
FileNames == {Pad(n) \o tail : n \in PadLengths, tail \in NameTails}

InitSanitize ==
  /\ InitProcesses
  /\ InitTemp
  /\ InitPipeline
  /\ maxConcurrentJobs = LowConcurrentJobs
  /\ disk = EmptyDoc
  /\ nextJobId = 1
  /\ now = 0
  /\ sanitizing \in {[NoCall EXCEPT !.input = filename] : filename \in FileNames}
  /\ validating = NoCall

NextSanitize == SanitizeFilename

SpecSanitize == InitSanitize /\ [][NextSanitize]_vars

\* validateFilePath by itself, on a path of up to MaxSegments names, absolute or
\* relative: allowed directories, siblings whose names extend theirs, '.', '..',
\* the empty name of a doubled or trailing slash, a system directory, a book
SegmentNames ==
  {<<"t", "m", "p">>, <<"t", "m", "p", "x">>, <<"v", "a", "r">>, <<"h">>, <<"h", "x">>,
   <<"w">>, <<Dot>>, <<Dot, Dot>>, <<>>, <<"e", "t", "c">>, <<"x", Dot, "p">>}
SegmentLists == UNION {[1..n -> SegmentNames] : n \in 0..MaxSegments}
FilePaths ==
  {joinPath(segments) : segments \in SegmentLists}
    \cup {<<Slash>> \o joinPath(segments) : segments \in SegmentLists}

InitValidate ==
  /\ InitProcesses
  /\ InitTemp
  /\ InitPipeline
  /\ maxConcurrentJobs = LowConcurrentJobs
  /\ disk = EmptyDoc
  /\ nextJobId = 1
  /\ now = 0
  /\ sanitizing = NoCall
  /\ validating \in {[NoCall EXCEPT !.input = filePath] : filePath \in FilePaths}

NextValidate ==
  \E mustExist \in BOOLEAN, allowSymlinks \in BOOLEAN, exists \in BOOLEAN, symlink \in BOOLEAN,
     allowedExtensions \in {NoExtensions, BookExtensions} :
    ValidateFilePath(mustExist, allowSymlinks, allowedExtensions, exists, symlink)

SpecValidate == InitValidate /\ [][NextValidate]_vars

\* ------------------------------------------------------------------ claims
ProcessingJobs(d) == {j \in DOMAIN d.jobs : d.jobs[j].status = "processing"}
Docs == {disk} \cup {mem[w] : w \in Workers}
Terminal == {"completed", "failed"}

\* C1: within one worker process the number of processing jobs, in the worker's
\* copy and in the persisted document, never exceeds maxConcurrentJobs, and
\* activeJobs stays within 0..maxConcurrentJobs.
ConcurrencyBoundOneWorker ==
  \A w \in Workers :
    /\ activeJobs[w] \in 0..maxConcurrentJobs
    /\ Cardinality(ProcessingJobs(mem[w])) <= maxConcurrentJobs
    /\ Cardinality(ProcessingJobs(disk)) <= maxConcurrentJobs
    /\ Cardinality(DOMAIN tasks[w]) = activeJobs[w]

\* C1 witness: every slot of the worker is taken while another job is pending
ConcurrencyBoundBinding ==
  /\ Running(1)
  /\ activeJobs[1] = maxConcurrentJobs
  /\ Cardinality(ProcessingJobs(mem[1])) = maxConcurrentJobs
  /\ PendingJobs(mem[1]) # {}

\* C2: the number of processing jobs in the persisted document never exceeds
\* maxConcurrentJobs, also after a worker was stopped with jobs in flight and a
\* new worker was started.
PersistedConcurrencyBound ==
  Cardinality(ProcessingJobs(disk)) <= maxConcurrentJobs

\* The chapter a task of worker w is working on
TaskChapter(w, j) == tasks[w][j].chapters[tasks[w][j].idx]

\* Worker w marks the chapter of its task for job j failed in this step
MarksChapterFailed(w, j) ==
  /\ j \in DOMAIN tasks[w]
  /\ mem[w].chapters[TaskChapter(w, j)].status # "failed"
  /\ TaskChapter(w, j) \in DOMAIN mem'[w].chapters
  /\ mem'[w].chapters[TaskChapter(w, j)].status = "failed"

\* The waits of a task so far follow the retry bound: the wait after failed
\* attempt k is at least 1000 * 2^(k-1) ms and at most the 30000 ms cap
WaitsWithinBound(t) ==
  \A k \in 1..Len(t.waits) :
    /\ k < MaxRetries
    /\ t.waits[k] >= BackoffBase * Pow2(k - 1)
    /\ t.waits[k] <= BackoffCap

\* While a chapter is being retried it has been invoked once per attempt, at most
\* maxRetries times, one wait follows each failed attempt but the last, and
\* neither the chapter nor its job is marked failed yet
RetryInFlight ==
  \A w \in Workers : \A j \in DOMAIN tasks[w] :
    LET t == tasks[w][j]
    IN /\ t.calls = t.attempt
       /\ t.attempt \in 1..MaxRetries
       /\ Len(t.waits) = IF t.pc = "backoff" THEN t.attempt ELSE t.attempt - 1
       /\ WaitsWithinBound(t)
       /\ mem[w].chapters[TaskChapter(w, j)].status = "processing"
       /\ mem[w].jobs[j].status = "processing"

\* A chapter is marked failed only by the failure of its maxRetries-th invocation,
\* with maxRetries - 1 waits behind it, and its job is marked failed with it
FailsAfterLastAttempt ==
  \A w \in Workers : \A j \in JobIds :
    MarksChapterFailed(w, j) =>
      /\ tasks[w][j].pc = "tts"
      /\ tasks[w][j].calls = MaxRetries
      /\ Len(tasks[w][j].waits) = MaxRetries - 1
      /\ mem'[w].jobs[j].status = "failed"
      /\ j \notin DOMAIN tasks'[w]

\* The failure of an invocation before the last one is followed by a wait, and
\* the failure of the last one is followed by none
FailureThenWait ==
  \A w \in Workers : \A j \in JobIds :
    (/\ j \in DOMAIN tasks[w]
     /\ tasks[w][j].pc = "tts"
     /\ \E outcome \in TtsOutcomes : TtsFails(w, j, outcome))
    => IF tasks[w][j].calls < MaxRetries
       THEN /\ j \in DOMAIN tasks'[w]
            /\ tasks'[w][j].pc = "backoff"
            /\ tasks'[w][j].calls = tasks[w][j].calls
       ELSE MarksChapterFailed(w, j)

\* C3: a chapter that fails on every attempt is invoked exactly maxRetries (3)
\* times; the wait after failed attempt k < maxRetries is at least 1000*2^(k-1) ms
\* and at most 30000 ms; no wait follows the last attempt; only after the last
\* attempt are the chapter and the job marked failed.
RetryBound ==
  /\ []RetryInFlight
  /\ [][FailsAfterLastAttempt /\ FailureThenWait]_vars

\* C3 witness: a job has just failed on a chapter that a worker retried to the end
\* (the worker's copy shows the chapter failed, the job failed, the slot released)
RetriesExhausted ==
  \E w \in Workers : \E c \in DOMAIN mem[w].chapters :
    /\ Running(w)
    /\ mem[w].chapters[c].status = "failed"
    /\ mem[w].jobs[c[1]].status = "failed"
    /\ mem[w].jobs[c[1]].error = mem[w].chapters[c].error
    /\ c[1] \notin DOMAIN tasks[w]

\* completed_chapters of every job of a document is the number of its
\* completed chapters
CountsAgree(d) ==
  \A j \in DOMAIN d.jobs :
    d.jobs[j].completed_chapters =
      Cardinality({c \in DOMAIN d.chapters :
                     d.chapters[c].job_id = j /\ d.chapters[c].status = "completed"})

\* No job that stays in a document changes its total_chapters
TotalsKept(d, e) ==
  \A j \in DOMAIN d.jobs \cap DOMAIN e.jobs :
    e.jobs[j].total_chapters = d.jobs[j].total_chapters

\* C4: in every state of worker-driven execution, in the persisted document and
\* in every worker's copy, each job's completed_chapters equals the number of
\* its chapters whose status is completed, and total_chapters never changes
\* after createJob.
CompletedCountInvariant ==
  /\ [](\A d \in Docs : CountsAgree(d))
  /\ [][/\ TotalsKept(disk, disk')
        /\ \A w \in Workers : TotalsKept(mem[w], mem'[w])]_vars

\* C4 witness: a job in flight with some but not all of its chapters completed
PartlyCompletedJob ==
  \E w \in Workers : \E j \in DOMAIN tasks[w] :
    /\ mem[w].jobs[j].completed_chapters > 0
    /\ mem[w].jobs[j].completed_chapters < mem[w].jobs[j].total_chapters
    /\ disk = mem[w]

\* A job of the persisted document that an explicit cancellation marked failed
Cancelled(d, j) ==
  /\ j \in DOMAIN d.jobs
  /\ d.jobs[j].status = "failed"
  /\ d.jobs[j].error = CancelMessage

\* C5: once an explicit cancellation has marked a job failed, its status stays
\* failed: chapter work of that job in flight or still to come never changes it.
CancelledStaysFailed ==
  [][\A j \in JobIds :
       (Cancelled(disk, j) /\ j \in DOMAIN disk'.jobs)
         => disk'.jobs[j].status = "failed"]_vars

\* In a document, a failed chapter has a failed job with an error recorded, and
\* no chapter after it in the job has been attempted
FailedChapterAbortsJob(d) ==
  \A c \in DOMAIN d.chapters :
    (d.chapters[c].status = "failed" /\ c[1] \in DOMAIN d.jobs) =>
      /\ d.jobs[c[1]].status = "failed"
      /\ d.jobs[c[1]].error \notin {null, ""}
      /\ d.chapters[c].error \notin {null, ""}
      /\ \A o \in ChaptersOf(d, c[1]) :
           d.chapters[o].chapter_num > d.chapters[c].chapter_num
             => d.chapters[o].status = "pending"

\* The 4-chapter scenario: chapters 1-3 completed and chapter 4 failed
ThreeDoneFourthFailed(d, j) ==
  /\ j \in DOMAIN d.jobs
  /\ d.jobs[j].total_chapters = 4
  /\ \A i \in 1..3 : d.chapters[<<j, i>>].status = "completed"
  /\ d.chapters[<<j, 4>>].status = "failed"

\* The job is marked failed with the error of the chapter that failed
RecordsChapterError ==
  \A w \in Workers : \A j \in JobIds :
    MarksChapterFailed(w, j) =>
      /\ mem'[w].jobs[j].status = "failed"
      /\ mem'[w].jobs[j].error = mem'[w].chapters[TaskChapter(w, j)].error
      /\ mem'[w].jobs[j].error \notin {null, ""}
      /\ disk' = mem'[w]

\* C6: when a chapter exhausts its retries it is marked failed, no later chapter
\* of the job is ever attempted (they remain pending), and the job is marked
\* failed with the failing chapter's error recorded; a 4-chapter job whose chapters
\* 1-3 completed and whose chapter 4 failed ends failed with completed_chapters = 3
\* and a non-empty error.
FailedChapterFailsJob ==
  /\ [](\A d \in Docs : FailedChapterAbortsJob(d))
  /\ [](\A d \in Docs : \A j \in JobIds :
          ThreeDoneFourthFailed(d, j) =>
            /\ d.jobs[j].status = "failed"
            /\ d.jobs[j].completed_chapters = 3
            /\ d.jobs[j].error \notin {null, ""})
  /\ [][RecordsChapterError]_vars

\* C6 witness: the worker's 4-chapter job has chapters 1-3 completed, chapter 4
\* failed, and the job failed, in the worker's copy and in the persisted document
FourChapterJobFailed ==
  \E w \in Workers : \E j \in DOMAIN mem[w].jobs :
    /\ Running(w)
    /\ ThreeDoneFourthFailed(mem[w], j)
    /\ mem[w].jobs[j].status = "failed"
    /\ disk = mem[w]

\* In a document, a completed job has all its chapters completed
CompletedMeansAllChapters(d) ==
  \A j \in DOMAIN d.jobs :
    d.jobs[j].status = "completed" =>
      /\ \A c \in ChaptersOf(d, j) : d.chapters[c].status = "completed"
      /\ d.jobs[j].completed_chapters = d.jobs[j].total_chapters

\* C7: whenever a job's status is completed, every chapter of that job has status
\* completed and completed_chapters = total_chapters.
CompletedJobInvariant == \A d \in Docs : CompletedMeansAllChapters(d)

\* C7 witness: a job of more than one chapter is completed
MultiChapterJobCompleted ==
  \E j \in DOMAIN disk.jobs :
    /\ disk.jobs[j].status = "completed"
    /\ disk.jobs[j].total_chapters > 1

CreatedJobKept(j) ==
  (j \in DOMAIN disk.jobs /\ j \notin DOMAIN disk'.jobs) => j \in deletedJobs'

\* A cancelled job is still failed after the step
CancelledJobKept(j) ==
  (Cancelled(disk, j) /\ j \notin deletedJobs') =>
    (j \in DOMAIN disk'.jobs /\ disk'.jobs[j].status = "failed")

\* A deleted job is still absent after the step
DeletedJobKept(j) ==
  (j \in deletedJobs /\ j \notin DOMAIN disk.jobs) => j \notin DOMAIN disk'.jobs

\* C9: no update is lost between processes sharing the persisted document: a job
\* created, cancelled or deleted by a CLI process while a worker is running is
\* still created, failed or absent after every subsequent write by the worker.
NoLostUpdate ==
  [][\A j \in JobIds : CreatedJobKept(j) /\ CancelledJobKept(j) /\ DeletedJobKept(j)]_vars

\* Worker w claims job j in this step
Claims(w, j) ==
  /\ Running(w)
  /\ j \in PendingJobs(mem[w])
  /\ j \in DOMAIN mem'[w].jobs
  /\ mem'[w].jobs[j].status # "pending"

\* C10: jobs are claimed in creation order: when a poll claims job B, no job A
\* created before B (ids follow creation order) is pending in the store the poll
\* reads, and none has an earlier or equal created_at.
ClaimedOldestFirst ==
  [][\A w \in Workers : \A b \in JobIds :
       Claims(w, b) =>
         \A a \in PendingJobs(mem[w]) :
           /\ a >= b
           /\ mem[w].jobs[a].created_at >= mem[w].jobs[b].created_at]_vars

\* C10 witness: the older of two jobs was claimed while the younger one, pending
\* at that poll too, still waits
OlderClaimedFirst ==
  \E w \in Workers : \E a \in DOMAIN tasks[w] : \E b \in PendingJobs(mem[w]) :
    /\ a < b
    /\ maxConcurrentJobs > Cardinality(DOMAIN tasks[w])

\* In a document, a job has at most one chapter processing, every chapter of
\* a lower ordinal than a processing one is completed and every chapter of a
\* higher ordinal is still pending
OneChapterAtATime(d) ==
  \A c \in DOMAIN d.chapters :
    d.chapters[c].status = "processing" =>
      \A o \in ChaptersOf(d, d.chapters[c].job_id) \ {c} :
        /\ d.chapters[o].status # "processing"
        /\ d.chapters[o].chapter_num # d.chapters[c].chapter_num
        /\ d.chapters[o].chapter_num < d.chapters[c].chapter_num
             => d.chapters[o].status = "completed"
        /\ d.chapters[o].chapter_num > d.chapters[c].chapter_num
             => d.chapters[o].status = "pending"

\* C11: within one job, chapters are synthesized one at a time in strictly
\* ascending ordinal: in the persisted document and in every worker's copy at
\* most one chapter of a job is processing, and while a chapter is processing
\* every chapter of a lower ordinal is recorded completed (and the task of the
\* job is working on exactly that chapter).
ChaptersInOrder ==
  /\ \A d \in Docs : OneChapterAtATime(d)
  /\ \A w \in Workers : \A j \in DOMAIN tasks[w] :
       \A c \in ChaptersOf(mem[w], j) :
         mem[w].chapters[c].status = "processing" <=> c = TaskChapter(w, j)

\* C11 witness: the persisted document shows a later chapter of a job being
\* synthesized by a running worker after the chapter before it was completed
LaterChapterStarted ==
  \E w \in Workers : \E j \in DOMAIN tasks[w] :
    /\ Running(w)
    /\ tasks[w][j].idx > 1
    /\ TaskChapter(w, j) \in DOMAIN disk.chapters
    /\ disk.chapters[TaskChapter(w, j)].status = "processing"
    /\ disk.chapters[tasks[w][j].chapters[tasks[w][j].idx - 1]].status = "completed"

\* The jobs that leave status pending in worker w's copy in this step
ClaimedInStep(w) ==
  {j \in PendingJobs(mem[w]) : j \in DOMAIN mem'[w].jobs /\ mem'[w].jobs[j].status # "pending"}

\* The free slots of worker w
FreeSlots(w) == maxConcurrentJobs - activeJobs[w]

\* One poll tick of worker w that finds a free slot and a pending job
PollTick(w) == \E mkdirOk \in BOOLEAN : Poll(w, mkdirOk)

\* C12: on each poll tick the worker keeps claiming pending jobs until the
\* active-job count reaches the ceiling or no pending job remains: with k pending
\* jobs and c free slots, min(k, c) jobs are started in that tick.
PollFillsFreeSlots ==
  [][\A w \in Workers :
       PollTick(w) =>
         Cardinality(ClaimedInStep(w)) =
           Min(Cardinality(PendingJobs(mem[w])), FreeSlots(w))]_vars

\* C12 amended: a poll tick claims one job at most: with k pending jobs and c
\* free slots it claims min(k, c, 1) jobs, the oldest pending one when k and c
\* are both positive, and no other step of the worker claims a job.
PollClaimsOneJob ==
  [][\A w \in Workers :
       /\ PollTick(w) =>
            /\ Cardinality(ClaimedInStep(w)) =
                 Min(Min(Cardinality(PendingJobs(mem[w])), FreeSlots(w)), 1)
            /\ Cardinality(PendingJobs(mem'[w])) = Cardinality(PendingJobs(mem[w])) - 1
       /\ (Running(w) /\ ClaimedInStep(w) # {}) =>
            /\ PollTick(w)
            /\ FreeSlots(w) >= 1]_vars

\* C12 witness: after a poll that found two pending jobs and two free slots, one
\* job is in flight on its first chapter, the other is still pending and a slot
\* is still free
SecondJobWaitsForNextTick ==
  /\ Running(1)
  /\ activeJobs[1] = 1
  /\ FreeSlots(1) >= 1
  /\ \E a \in DOMAIN tasks[1] : \E b \in PendingJobs(mem[1]) :
       /\ tasks[1][a].idx = 1 /\ tasks[1][a].calls = 1
       /\ mem[1].jobs[b].created_at >= mem[1].jobs[a].created_at

\* The task of job j in worker w can take its next step: its TTS call can
\* return, or its backoff timer can fire
TaskCanProgress(w, j) ==
  IF tasks[w][j].pc = "tts"
  THEN ENABLED ((\E o \in TtsOutcomes : TtsFails(w, j, o)) \/ TtsSucceeds(w, j))
  ELSE ENABLED BackoffElapsed(w, j)

\* C13: a job task suspended on a synthesis subprocess or on a retry backoff
\* never blocks the poll loop: while it is suspended, activeJobs is below
\* maxConcurrentJobs and a job is pending, the next poll can claim a job, and
\* every in-flight task can take its next step whatever the other tasks wait for.
SuspendedTaskBlocksNothing ==
  \A w \in Workers :
    DOMAIN tasks[w] # {} =>
      /\ Running(w)
      /\ (activeJobs[w] < maxConcurrentJobs /\ PendingJobs(mem[w]) # {})
           => ENABLED PollTick(w)
      /\ \A j \in DOMAIN tasks[w] :
           tasks[w][j].pc \in {"tts", "backoff"} /\ TaskCanProgress(w, j)

\* C13 witness: one job waits in a retry backoff while a second job, claimed by
\* a later poll, has its TTS call in flight
TwoJobsInFlight ==
  \E a, b \in DOMAIN tasks[1] :
    /\ a # b
    /\ tasks[1][a].pc = "backoff"
    /\ tasks[1][b].pc = "tts"
    /\ a < b

\* In this step the TTS invocation of the task of job j in worker w returns
\* (with any outcome) and the worker handles the return
TtsReturned(w, j) ==
  /\ Running(w)
  /\ wstate' = wstate
  /\ j \in DOMAIN tasks[w]
  /\ tasks[w][j].pc = "tts"
  /\ (j \notin DOMAIN tasks'[w] \/ tasks'[w][j] # tasks[w][j])

\* C14: after every synthesis invocation for a chapter returns, whether it
\* succeeded, returned an error result, exited non-zero, produced unparsable
\* output or failed to spawn, the chapter's temp file <chapterId>.json no longer
\* exists.
TempFileGoneAfterCall ==
  [][\A w \in Workers : \A j \in JobIds :
       TtsReturned(w, j) => TaskChapter(w, j) \notin tempFiles']_vars

\* In this step the task of job j in worker w ends (processJobAsync returns)
JobTaskEnds(w, j) ==
  /\ Running(w)
  /\ wstate' = wstate
  /\ j \in DOMAIN tasks[w]
  /\ j \notin DOMAIN tasks'[w]

\* Job o and its chapters are the same in documents d and e
SameJob(d, e, o) ==
  /\ o \in DOMAIN e.jobs
  /\ e.jobs[o] = d.jobs[o]
  /\ ChaptersOf(e, o) = ChaptersOf(d, o)
  /\ \A c \in ChaptersOf(d, o) : e.chapters[c] = d.chapters[c]

\* The end of a job's task, by success or by failure, releases one slot, leaves
\* the job completed or failed, and touches no other job and no other task
TaskEndReleasesOneSlot ==
  \A w \in Workers : \A j \in JobIds :
    JobTaskEnds(w, j) =>
      /\ activeJobs'[w] = activeJobs[w] - 1
      /\ mem'[w].jobs[j].status \in Terminal
      /\ DOMAIN tasks'[w] = DOMAIN tasks[w] \ {j}
      /\ \A o \in DOMAIN tasks'[w] : tasks'[w][o] = tasks[w][o]
      /\ \A o \in DOMAIN mem[w].jobs \ {j} : SameJob(mem[w], mem'[w], o)

\* A worker with failed jobs behind it is still running with one slot taken per
\* job in flight, and its poll can claim a pending job when a slot is free
WorkerSurvivesFailure ==
  \A w \in Workers :
    (Running(w) /\ \E j \in DOMAIN mem[w].jobs : mem[w].jobs[j].status = "failed") =>
      /\ activeJobs[w] = Cardinality(DOMAIN tasks[w])
      /\ activeJobs[w] = Cardinality(ProcessingJobs(mem[w]))
      /\ (activeJobs[w] < maxConcurrentJobs /\ PendingJobs(mem[w]) # {})
           => ENABLED PollTick(w)

\* C15: a chapter failure fails only its own job and never stops the worker:
\* after the job is marked failed its slot is released (activeJobs is decremented
\* exactly once per dispatched job, on the success and the failure path alike),
\* other in-flight jobs are unaffected, and the poll loop keeps claiming later
\* pending jobs.
FailureIsContained ==
  /\ []WorkerSurvivesFailure
  /\ [][TaskEndReleasesOneSlot]_vars

\* C15 witness: with a single slot, a job that failed on a chapter has released
\* it and a later job has been claimed and is in flight
ClaimedAfterFailure ==
  /\ Running(1)
  /\ maxConcurrentJobs = 1
  /\ \E c \in DOMAIN mem[1].chapters : \E b \in DOMAIN tasks[1] :
       /\ mem[1].chapters[c].status = "failed"
       /\ mem[1].jobs[c[1]].status = "failed"
       /\ c[1] < b
       /\ activeJobs[1] = 1

\* The sum of the word counts stored for the chapters cs of document d
RECURSIVE StoredWords(_, _)
StoredWords(d, cs) ==
  IF cs = {} THEN 0
  ELSE LET c == CHOOSE x \in cs : TRUE
       IN d.chapters[c].word_count + StoredWords(d, cs \ {c})

\* Document e is document d plus one job j made from the chapter list chapters
AddsOneJob(d, e, j, chapters) ==
  /\ j \notin DOMAIN d.jobs
  /\ DOMAIN e.jobs = DOMAIN d.jobs \cup {j}
  /\ e.jobs[j].status = "pending"
  /\ e.jobs[j].completed_chapters = 0
  /\ e.jobs[j].total_chapters = Len(chapters)
  /\ e.jobs[j].total_words = StoredWords(e, ChaptersOf(e, j))
  /\ e.jobs[j].estimated_minutes * WordsPerMinute >= e.jobs[j].total_words
  /\ (e.jobs[j].estimated_minutes - 1) * WordsPerMinute < e.jobs[j].total_words
  /\ Cardinality(ChaptersOf(e, j)) = Len(chapters)
  /\ DOMAIN e.chapters = DOMAIN d.chapters \cup ChaptersOf(e, j)
  /\ ChaptersOf(e, j) \cap DOMAIN d.chapters = {}
  /\ \E f \in [1..Len(chapters) -> ChaptersOf(e, j)] :
       /\ \A i, k \in 1..Len(chapters) : f[i] = f[k] => i = k
       /\ \A i \in 1..Len(chapters) :
            /\ e.chapters[f[i]].status = "pending"
            /\ e.chapters[f[i]].job_id = j
            /\ e.chapters[f[i]].chapter_num = chapters[i].number
            /\ e.chapters[f[i]].word_count = chapters[i].wordCount
  /\ \A o \in DOMAIN d.jobs : SameJob(d, e, o)
  /\ \A c \in DOMAIN d.chapters : e.chapters[c] = d.chapters[c]

\* C16: createJob(sourceFile, chapters) adds exactly one job with status pending,
\* completed_chapters 0, total_chapters = number of chapters given, total_words =
\* sum of the chapters' word counts and estimated_minutes = ceil(total_words /
\* 150), and adds one pending chapter per input chapter carrying that job's id
\* and the input's ordinal; no existing job or chapter is changed.
CreateJobAddsOneJob ==
  [][nextJobId' # nextJobId =>
       \E chapters \in ChapterInputs : AddsOneJob(disk, disk', nextJobId, chapters)]_vars

\* C16 witness: a job of two chapters and more than 150 words was created in a
\* store that held a job the worker is processing
JobCreatedBesideAnother ==
  \E a, b \in DOMAIN disk.jobs :
    /\ a < b
    /\ disk.jobs[a].status = "processing"
    /\ disk.jobs[b].status = "pending"
    /\ disk.jobs[b].total_chapters = 2
    /\ disk.jobs[b].total_words > WordsPerMinute
    /\ disk.jobs[b].estimated_minutes = 2
    /\ \A c \in ChaptersOf(disk, b) : disk.chapters[c].status = "pending"

\* Job j and its chapters are absent from document d
JobAbsent(d, j) == j \notin DOMAIN d.jobs /\ ChaptersOf(d, j) = {}

\* C17: after deleteJob(id), no job with that id and no chapter whose job_id is id
\* remains in the store, every other job and chapter is unchanged, and later
\* status updates issued by a worker still executing that job do not recreate
\* the job or its chapters.
DeletedJobStaysDeleted ==
  [][\A j \in JobIds :
       /\ CliDeleteJob(j) =>
            /\ JobAbsent(disk', j)
            /\ \A o \in DOMAIN disk.jobs \ {j} : SameJob(disk, disk', o)
       /\ (j \in deletedJobs /\ JobAbsent(disk, j)) => JobAbsent(disk', j)]_vars

\* An update or a delete with an id the document does not hold returns the
\* document as it was
UnknownIdChangesNothing(d) ==
  /\ \A j \in JobIds \ DOMAIN d.jobs :
       /\ getJob(d, j) = null
       /\ \A st \in StatusValues, e \in {null, MkdirMessage} :
            updateJobStatus(d, j, st, e) = d
       /\ updateJobOutputDir(d, j, OutputDir) = d
       /\ deleteJob(d, j) = d
       /\ getNextPendingChapter(d, j) = NoChapter
  /\ \A c \in ChapterIds \ DOMAIN d.chapters :
       \A st \in StatusValues, a \in {null, AudioFile}, e \in {null, MkdirMessage} :
         updateChapterStatus(d, c, st, a, e) = d

\* With nothing pending the two pending lookups return null
NothingPendingGivesNull(d) ==
  /\ (\A j \in DOMAIN d.jobs : d.jobs[j].status # "pending")
       => getNextPendingJob(d) = NoJob
  /\ \A j \in JobIds :
       (\A c \in ChaptersOf(d, j) : d.chapters[c].status # "pending")
         => getNextPendingChapter(d, j) = NoChapter

DenseOrdinals(chapters) ==
  /\ chapters # <<>>
  /\ chapters[1].number = IF chapters[1].title = IntroTitle THEN 0 ELSE 1
  /\ \A i \in 1..(Len(chapters) - 1) : chapters[i + 1].number = chapters[i].number + 1
  /\ \A i, k \in 1..Len(chapters) : chapters[i].number = chapters[k].number => i = k

\* C19: for every input text, the chapters produced by the Segmenter for one job
\* have distinct ordinals that increase by exactly 1 from each chapter to the
\* next, starting at 0 when an Introduction segment exists and at 1 otherwise.
SegmenterOrdinalsDense == cleaner # "none" => DenseOrdinals(detected)

\* No line of the text is a chapter boundary
NoBoundary(lines) == \A i \in 1..Len(lines) : ~IsBoundary(trimLine(lines[i]))

\* The text is one that normalizeWhitespace, the last cleaning stage, returns:
\* no run of two spaces, no run of three newlines, nothing to trim at its ends
IsCleaned(lines) ==
  /\ \A i \in 1..Len(lines) : \A k \in 1..(Len(lines[i]) - 1) :
       ~(lines[i][k] = Space /\ lines[i][k + 1] = Space)
  /\ \A i \in 1..(Len(lines) - 1) : ~(lines[i] = <<>> /\ lines[i + 1] = <<>>)
  /\ trimText(lines) = lines

\* A text with every line trimmed
TrimLines(lines) == trimText([i \in 1..Len(lines) |-> trimLine(lines[i])])

\* No line of the text begins or ends with a space
NoEdgeSpace(lines) == \A i \in 1..Len(lines) : trimLine(lines[i]) = lines[i]

\* detectChapters has run on a cleaned text without a boundary line
SegmentedWithoutBoundary ==
  cleaner # "none" /\ IsCleaned(cleanedText) /\ NoBoundary(cleanedText)

ScenarioDocument == Document(3, "bare", FALSE)

\* No line of the text ends in a run of dots and a page number
NoTocLine(lines) == \A i \in 1..Len(lines) : ~isTOCEntry(trimLine(lines[i]))

\* processFile has cleaned the text with no stage failing and segmented it
Processed == cleaning.outcome = "returned" /\ cleaning.failing = 0 /\ cleaner # "none"

\* C21: for the document of the TOC lines 'Chapter 1.......12',
\* 'Chapter 2.......34', 'Chapter 3.......56' followed by the headings
\* 'Chapter 1', 'Chapter 2', 'Chapter 3', each with body text, cleanText leaves
\* no line of a dot run and a page number, and detectChapters returns exactly 3
\* chapters with the ordinals 1, 2, 3 in document order.
ScenarioGivesThreeChapters ==
  (Processed /\ rawText = ScenarioDocument) =>
    /\ NoTocLine(cleanedText)
    /\ Len(detected) = 3
    /\ \A i \in 1..3 : detected[i].number = i

\* C22: normalizeWhitespace is idempotent: for every text t of spaces, tabs,
\* newlines and ordinary characters, normalizeWhitespace(normalizeWhitespace(t))
\* equals normalizeWhitespace(t).
NormalizeIdempotent ==
  \A i \in 2..Len(normalized) : normalized[i] = normalized[1]

\* C22 witness: normalizeWhitespace has run on a text with a tab and a run of
\* three newlines inside and whitespace at an end, has changed it, and has
\* run again on what it returned
NormalizedTwice ==
  /\ Len(normalized) = NormalizePasses
  /\ \E i \in 1..Len(rawText) : rawText[i] = Tab
  /\ \E i \in 2..(Len(rawText) - NewlineRun) :
       /\ rawText[i - 1] = Letter
       /\ \A k \in 0..(NewlineRun - 1) : rawText[i + k] = Newline
       /\ rawText[i + NewlineRun] = Letter
  /\ rawText[Len(rawText)] \in Whitespace
  /\ normalized[1] # rawText
  /\ Len(normalized[1]) < Len(rawText)

\* What stage i of the cleanText call was handed
StageInput(i) == IF i = 1 THEN rawText ELSE cleaning.stages[i - 1]

\* C23: if any single cleaning stage (TOC, copyright, header/footer,
\* page-number, hyphenation, whitespace) fails internally, cleanText still
\* returns a result: the failing stage's output equals its input and every
\* later stage still runs on it.
StageFailureIsContained ==
  cleaning.failing # 0 =>
    /\ cleaning.outcome = "returned"
    /\ Len(cleaning.stages) = Cardinality(Stages)
    /\ cleaning.stages[cleaning.failing] = StageInput(cleaning.failing)
    /\ \A i \in (cleaning.failing + 1)..Cardinality(Stages) :
         cleaning.stages[i] = applyStage(cleaning.by, i, StageInput(i))

\* The documented wait before retry k: 1 s, 2 s, 4 s, ..., at most 30 s
DocumentedWait(k) == Min(BackoffBase * Pow2(k - 1), BackoffCap)

\* C24: the waits between a chapter's synthesis attempts follow the documented
\* schedule 1s, 2s, 4s (capped at 30s): the wait before the first retry is 1
\* second and each later wait doubles.
WaitsFollowDocumentedSchedule ==
  \A w \in Workers : \A j \in DOMAIN tasks[w] :
    \A k \in 1..Len(tasks[w][j].waits) : tasks[w][j].waits[k] = DocumentedWait(k)

\* C25: a memory sample at warning or critical level is advisory only: the step
\* changes neither activeJobs nor the status of any job or chapter, on disk or in
\* the worker's copy, and a poll that could dispatch a pending job before the
\* sample can still dispatch it after the sample.
Statuses(d) ==
  [jobs |-> [j \in DOMAIN d.jobs |-> d.jobs[j].status],
   chapters |-> [c \in DOMAIN d.chapters |-> d.chapters[c].status]]

Alerts(w) == monitor[w].stats.warnings + monitor[w].stats.criticals

CanDispatch(w) == ENABLED (\E mkdirOk \in BOOLEAN : Poll(w, mkdirOk))

SampleIsAdvisory ==
  [][\A w \in Workers :
       Alerts(w)' > Alerts(w) =>
         /\ activeJobs' = activeJobs
         /\ Statuses(disk)' = Statuses(disk)
         /\ Statuses(mem[w])' = Statuses(mem[w])
         /\ CanDispatch(w) => CanDispatch(w)']_vars

\* a warning and a critical sample were taken while a job was pending and a slot
\* was free, and the poll can dispatch that job
DispatchAfterAlerts ==
  /\ monitor[1].stats.warnings >= 1
  /\ monitor[1].stats.criticals >= 1
  /\ activeJobs[1] < maxConcurrentJobs
  /\ getNextPendingJob(mem[1]) # NoJob
  /\ CanDispatch(1)

\* C26: whatever sanitizeFilename returns contains no '/', no '\' and no '..',
\* also for a name of more than 255 characters, which goes through the truncation.
Sanitized == sanitizing.outcome = "returned"

SanitizedNameIsSafe ==
  Sanitized =>
    /\ ~includes(sanitizing.value, <<Slash>>)
    /\ ~includes(sanitizing.value, <<Backslash>>)
    /\ ~includes(sanitizing.value, <<Dot, Dot>>)

\* C27: every path validateFilePath returns lies inside an allowed directory: it
\* is that directory or a descendant of it; a path whose name only begins like
\* an allowed directory's is rejected.
Validated == validating.outcome = "returned"

\* the directory itself or a descendant of it
isWithinDir(resolved, dir) ==
  LET path == segmentsOf(resolved)
      base == segmentsOf(dir)
  IN Len(base) <= Len(path) /\ SubSeq(path, 1, Len(base)) = base

ValidatedPathIsInside ==
  Validated => \E dir \in allowedDirs : isWithinDir(validating.value, dir)

\* C28: under the worker a chapter's status only moves pending -> processing,
\* processing -> completed or processing -> failed, in the worker's copy and in
\* the persisted document; while the worker waits between two failed attempts the
\* chapter is processing; it becomes failed only in the step that ends the
\* attempt numbered maxRetries, all attempts having failed; a completed or failed
\* chapter keeps its status.
ChapterMoves == {<<"pending", "processing">>, <<"processing", "completed">>,
                 <<"processing", "failed">>}

MovesAllowed(before, after) ==
  \A c \in DOMAIN before.chapters \cap DOMAIN after.chapters :
    \/ after.chapters[c].status = before.chapters[c].status
    \/ <<before.chapters[c].status, after.chapters[c].status>> \in ChapterMoves

AttemptsOf(w, c) ==
  {tasks[w][j].calls : j \in {k \in DOMAIN tasks[w] :
                                 /\ tasks[w][k].chapters[tasks[w][k].idx] = c
                                 /\ tasks[w][k].pc = "tts"}}

ChapterLifecycle ==
  [][\A w \in Workers :
       /\ MovesAllowed(mem[w], mem'[w])
       /\ MovesAllowed(disk, disk')
       /\ \A j \in DOMAIN tasks[w] :
            tasks[w][j].pc = "backoff" =>
              mem[w].chapters[tasks[w][j].chapters[tasks[w][j].idx]].status = "processing"
       /\ \A c \in DOMAIN mem[w].chapters \cap DOMAIN mem'[w].chapters :
            (mem[w].chapters[c].status # "failed" /\ mem'[w].chapters[c].status = "failed")
              => AttemptsOf(w, c) = {MaxRetries}]_vars

\* a job whose first chapter was completed and whose second chapter failed after
\* its retries
CompletedThenFailedChapter ==
  \E c1, c2 \in DOMAIN mem[1].chapters :
    /\ mem[1].chapters[c1].job_id = mem[1].chapters[c2].job_id
    /\ mem[1].chapters[c1].status = "completed"
    /\ mem[1].chapters[c2].status = "failed"
    /\ disk.chapters = mem[1].chapters

\* C29: after any updateChapterStatus call of the Queue API, whatever the status
\* passed, also one that takes a completed chapter back to processing, failed or
\* pending, the owning job's completed_chapters is the number of its chapters
\* whose status is completed.
StoredCountIsRecount ==
  \A j \in DOMAIN disk.jobs :
    disk.jobs[j].completed_chapters =
      Cardinality({c \in DOMAIN disk.chapters :
                     /\ disk.chapters[c].job_id = j
                     /\ disk.chapters[c].status = "completed"})

ClaimedByOneWorker ==
  \A j \in JobIds : Cardinality({w \in Workers : j \in DOMAIN tasks[w]}) <= 1

\* C32: within one worker process no job is dispatched twice: the poll that
\* dispatches a job finds it pending in the worker's copy and leaves it marked
\* otherwise before the loop regains control, and a job that is no longer
\* pending in that copy never becomes pending in it again.
DispatchedOnce ==
  [][\A w \in Workers :
       /\ \A j \in DOMAIN mem[w].jobs \cap DOMAIN mem'[w].jobs :
            mem[w].jobs[j].status # "pending" => mem'[w].jobs[j].status # "pending"
       /\ activeJobs'[w] > activeJobs[w] =>
            /\ currentJob'[w] \in DOMAIN mem[w].jobs
            /\ mem[w].jobs[currentJob'[w]].status = "pending"
            /\ mem'[w].jobs[currentJob'[w]].status = "processing"]_vars

\* the worker finished its first job and a later poll dispatched its second
LaterPollTookNextJob ==
  \E j, k \in DOMAIN mem[1].jobs :
    /\ j # k
    /\ mem[1].jobs[j].status = "completed"
    /\ k \in DOMAIN tasks[1]
    /\ mem[1].jobs[k].status = "processing"

\* C33: a job that is processing in the persisted document while no worker has
\* it in flight (its worker exited, by a signal or a crash) is never claimed by
\* a worker started later, and as long as it is neither cancelled nor deleted
\* its status and the statuses of its chapters stay as they are.
LeftProcessing(j) ==
  /\ j \in DOMAIN disk.jobs
  /\ disk.jobs[j].status = "processing"
  /\ \A w \in Workers : j \notin DOMAIN tasks[w]

WarningBelowCritical ==
  \A w \in Workers :
    monitor[w].options.enabled =>
      /\ monitor[w].options.threshold < monitor[w].options.gcThreshold
      /\ \E usage \in 0..100 : levelOf(monitor[w].options, usage) = "warning"


\* C35: in processFile of text-cleaner.js (cleanText, then detectChapters on
\* what it returned), every line of the extracted text that consists solely
\* of a number is the title of one of the chapters returned.
LoneNumberLines(text) ==
  {i \in DOMAIN splitLines(text) : MatchesLoneNumber(trimLine(splitLines(text)[i]))}

LoneNumberLineIsChapter ==
  (cleaning.by = "v1" /\ cleaner = "v1") =>
    \A i \in LoneNumberLines(rawText) :
      \E k \in DOMAIN detected : detected[k].title = trimLine(splitLines(rawText)[i])


\* C36: when a worker starts, cleanupTempFiles removes from the temp directory
\* only .json files older than one hour, and every such file unless the
\* directory cannot be listed or a call on that very file fails; every other
\* file stays as it was, and whatever fails, the worker reaches its poll loop.
StaleJson(dir) ==
  {n \in DOMAIN dir.files : endsWith(n, JsonSuffix) /\ dir.files[n].age > StaleAge}

Starts(w) == wstate[w] = "new" /\ wstate'[w] = "running"

CleanupRemovesStaleJson ==
  /\ [](\A w \in Workers :
          (wstate[w] = "new" /\ \A v \in Workers : v < w => wstate[v] # "new")
            => ENABLED WorkerStart(w))
  /\ [][\A w \in Workers :
          Starts(w) =>
            LET gone == DOMAIN tempDir.files \ DOMAIN tempDir'.files
            IN /\ tempDir'.files = Restrict(tempDir.files, DOMAIN tempDir'.files)
               /\ gone \subseteq StaleJson(tempDir)
               /\ \A n \in StaleJson(tempDir) :
                    (tempDir.state = "listed" /\ tempDir.files[n].fault = "none")
                      => n \in gone
               /\ Running(w)']_vars

\* cleanupTempFiles has removed a stale .json file, and a stale .json file on
\* which unlinkSync failed, a young .json file and a file that is not .json
\* are still there
CleanupPassedOverFiles ==
  \E w \in Workers :
    /\ Running(w)
    /\ tempDir.cleaned >= 1
    /\ \E n \in StaleJson(tempDir) : tempDir.files[n].fault = "unlink"
    /\ \E n \in DOMAIN tempDir.files :
         endsWith(n, JsonSuffix) /\ tempDir.files[n].age <= StaleAge
    /\ \E n \in DOMAIN tempDir.files : ~endsWith(n, JsonSuffix)


\* C37: every chapter whose status is completed, in queue.json and in the copy
\* of every running worker, has an audio file: the completion update of
\* processJob, which passes no file, keeps the one processChapter recorded.
CompletedChapters(d) == {c \in DOMAIN d.chapters : d.chapters[c].status = "completed"}

CompletedChapterHasAudio ==
  /\ \A c \in CompletedChapters(disk) : disk.chapters[c].audio_file = AudioFile
  /\ \A w \in Workers :
       \A c \in CompletedChapters(mem[w]) : mem[w].chapters[c].audio_file = AudioFile

\* A worker has completed the first chapter of a job and is at the second one
ChapterCompletedTwice ==
  \E w \in Workers, j \in JobIds :
    /\ j \in DOMAIN tasks[w]
    /\ tasks[w][j].idx > 1
    /\ tasks[w][j].chapters[1] \in CompletedChapters(disk)


\* C38: in queue.json and in every worker's copy, a job whose status is failed
\* and a chapter whose status is failed have an error that is neither null nor
\* the empty string.
FailedJobs(d) == {j \in DOMAIN d.jobs : d.jobs[j].status = "failed"}
FailedChapters(d) == {c \in DOMAIN d.chapters : d.chapters[c].status = "failed"}

FailedCarriesError ==
  \A d \in Docs :
    /\ \A j \in FailedJobs(d) : d.jobs[j].error \notin {null, ""}
    /\ \A c \in FailedChapters(d) : d.chapters[c].error \notin {null, ""}

\* queue.json holds a job that failed on an exhausted chapter and a job that
\* failed for another reason: a cancellation or an output directory error
FailedForTwoReasons ==
  \E j \in FailedJobs(disk), k \in FailedJobs(disk) :
    /\ \E c \in FailedChapters(disk) : c[1] = j
    /\ disk.jobs[k].error \in {CancelMessage, MkdirMessage}


\* C39: in a running worker, currentJob is set exactly when activeJobs > 0, and
\* the job it then names is one whose processJobAsync call has not finished.
CurrentJobIsInFlight ==
  \A w \in Workers :
    Running(w) =>
      /\ (currentJob[w] # NoJob) <=> (activeJobs[w] > 0)
      /\ currentJob[w] # NoJob => currentJob[w] \in DOMAIN tasks[w]

====
